---- MODULE Spec2Model ----
(***************************************************************************)
(* Model of the Rfam quality-control statistics of Bio-Easel's             *)
(* lib/Bio/Easel/MSA.c: the two-letter ambiguity classifier, the basepair  *)
(* helpers _c_bp_dist and _c_bp_is_canonical, the statistics passes        *)
(* _c_rfam_bp_stats, _c_rfam_comp_and_len_stats, _c_rfam_pid_stats and     *)
(* _c_rfam_qc_stats over a digitized alignment, and the alignment calls    *)
(* _c_reorder, _c_set_sqname, _c_check_index, _c_get_sqidx, _c_write_msa.  *)
(*                                                                         *)
(* A C double is modelled as an exact rational <<n, d>> in lowest terms    *)
(* with d > 0; x/0 gives <<1,0>> (+inf), <<-1,0>> (-inf) or <<0,0>> (NaN)  *)
(* as IEEE-754 division does.  Rounding is not modelled.                   *)
(***************************************************************************)
EXTENDS Integers, Naturals, Sequences, FiniteSets, TLC

VARIABLES amb,   \* frame of _c_max_rna_two_letter_ambiguity: arguments and results
          pr,    \* frame of a call of _c_bp_is_canonical / _c_bp_dist
          msa,   \* the ESL_MSA object: nseq, alen, ax, wgt, ss_cons
          bp,    \* frame of _c_rfam_bp_stats: its locals and returned values
          cs,    \* frame of _c_rfam_comp_and_len_stats
          pid,   \* frame of _c_rfam_pid_stats
          pw,    \* frame of _c_pairwise_identity
          qc,    \* frame of _c_rfam_qc_stats, with the output files
          ro,    \* frame of _c_reorder
          ix,    \* frame of a call of _c_set_sqname, _c_check_index, _c_get_sqidx
          wm     \* frame of _c_write_msa, with the files and the open handles

vars == <<amb, pr, msa, bp, cs, pid, pw, qc, ro, ix, wm>>

RoIdle == [pc |-> "idle"]

IxIdle == [pc |-> "idle"]

WmIdle == [pc |-> "idle"]

CsIdle == [pc |-> "idle"]

PidIdle == [pc |-> "idle"]

PwIdle == [pc |-> "idle"]

QcIdle == [pc |-> "idle"]

---------------------------------------------------------------------------
(* Bounds of the model                                                     *)

MaxCt == 3      \* residue counts handed to the ambiguity classifier: 0..MaxCt
MaxSeq == 2     \* msa->nseq ranges over 0..MaxSeq
MaxLen == 4     \* msa->alen ranges over 1..MaxLen
MaxCells == 8   \* msa->nseq * msa->alen is at most MaxCells

(* Program constants: the digital RNA alphabet of the alignment            *)
K == 4          \* msa->abc->K: number of canonical residues; code K is the gap
Kp == 18        \* msa->abc->Kp: number of codes, 0..Kp-1

---------------------------------------------------------------------------
(* double arithmetic                                                       *)

Abs(x) == IF x < 0 THEN -x ELSE x

Sign(x) == IF x > 0 THEN 1 ELSE IF x < 0 THEN -1 ELSE 0

RECURSIVE Gcd(_, _)
Gcd(a, b) == IF b = 0 THEN a ELSE Gcd(b, a % b)

\* n/d as a double: lowest terms, positive denominator; inf and NaN for d = 0
Frac(n, d) ==
  IF d = 0 THEN <<Sign(n), 0>>
  ELSE LET g == Gcd(Abs(n), Abs(d))
       IN  <<(Sign(d) * n) \div g, Abs(d) \div g>>

D(n) == <<n, 1>>

IsNaN(x) == x = <<0, 0>>

IsFinite(x) == x[2] # 0

\* x + y, x and y finite
DAdd(x, y) == Frac(x[1] * y[2] + y[1] * x[2], x[2] * y[2])

\* x * y, x and y finite
DMul(x, y) == Frac(x[1] * y[1], x[2] * y[2])

\* x / y, x and y finite
DDiv(x, y) == Frac(x[1] * y[2], x[2] * y[1])

\* x > y as C compares doubles: false when either is NaN
DGt(x, y) ==
  IF IsNaN(x) \/ IsNaN(y) THEN FALSE
  ELSE IF IsFinite(x) /\ IsFinite(y) THEN x[1] * y[2] > y[1] * x[2]
  ELSE IF IsFinite(y) THEN x[1] > 0
  ELSE IF IsFinite(x) THEN y[1] < 0
  ELSE x[1] > y[1]

DFabs(x) == <<Abs(x[1]), x[2]>>

---------------------------------------------------------------------------
(* _c_max_rna_two_letter_ambiguity                                         *)

\* the chain of comparisons, one LET per if statement of the function
_c_max_rna_two_letter_ambiguity(act, cct, gct, uct) ==
  LET sum == DAdd(DAdd(DAdd(act, cct), gct), uct)
      m0  == [max_2l |-> "M", max_2l_frac |-> DDiv(DAdd(act, cct), sum)]
      m1  == IF DGt(DDiv(DAdd(act, gct), sum), m0.max_2l_frac)
             THEN [max_2l |-> "R", max_2l_frac |-> DDiv(DAdd(act, cct), sum)]
             ELSE m0
      m2  == IF DGt(DDiv(DAdd(act, uct), sum), m1.max_2l_frac)
             THEN [max_2l |-> "W", max_2l_frac |-> DDiv(DAdd(act, uct), sum)]
             ELSE m1
      m3  == IF DGt(DDiv(DAdd(cct, gct), sum), m2.max_2l_frac)
             THEN [max_2l |-> "S", max_2l_frac |-> DDiv(DAdd(cct, gct), sum)]
             ELSE m2
      m4  == IF DGt(DDiv(DAdd(cct, uct), sum), m3.max_2l_frac)
             THEN [max_2l |-> "Y", max_2l_frac |-> DDiv(DAdd(cct, uct), sum)]
             ELSE m3
      m5  == IF DGt(DDiv(DAdd(gct, uct), sum), m4.max_2l_frac)
             THEN [max_2l |-> "K", max_2l_frac |-> DDiv(DAdd(gct, uct), sum)]
             ELSE m4
  IN  m5

AmbIdle == [pc |-> "idle", act |-> 0, cct |-> 0, gct |-> 0, uct |-> 0,
            ret_max_2l |-> "-", ret_max_2l_frac |-> D(0)]

AmbCall ==
  \E a, c, g, u \in 0..MaxCt :
    amb = [pc |-> "call", act |-> a, cct |-> c, gct |-> g, uct |-> u,
           ret_max_2l |-> "-", ret_max_2l_frac |-> D(0)]

\* a caller hands the four counts over and receives code and fraction
CallMax2l ==
  /\ amb.pc = "call"
  /\ LET r == _c_max_rna_two_letter_ambiguity(D(amb.act), D(amb.cct),
                                              D(amb.gct), D(amb.uct))
     IN  amb' = [amb EXCEPT !.pc = "done",
                            !.ret_max_2l = r.max_2l,
                            !.ret_max_2l_frac = r.max_2l_frac]
  /\ UNCHANGED <<pr, msa, bp, cs, pid, pw, qc, ro, ix, wm>>

---------------------------------------------------------------------------
(* _c_bp_dist and _c_bp_is_canonical                                       *)

\* faulty variant: the second test written with || in place of &&
BpDistOr(a1, b1, a2, b2) ==
  IF a1 = a2 /\ b1 = b2 THEN 0
  ELSE IF a1 # a2 \/ b1 # b2 THEN 2
  ELSE 1

_c_bp_dist(a1, b1, a2, b2) ==
  IF a1 = a2 /\ b1 = b2 THEN 0
  ELSE IF a1 # a2 /\ b1 # b2 THEN 2
  ELSE 1

\* faulty variant: the U:G arm of case 3 left out
BpIsCanonicalNoUG(a, b) ==
  CASE a = 0  -> (CASE b = 3 -> TRUE [] OTHER -> FALSE)
    [] a = 1  -> (CASE b = 2 -> TRUE [] OTHER -> FALSE)
    [] a = 2  -> (CASE b = 1 -> TRUE [] b = 3 -> TRUE [] OTHER -> FALSE)
    [] a = 3  -> (CASE b = 0 -> TRUE [] OTHER -> FALSE)
    [] a = 5  -> (CASE b = 6 -> TRUE [] OTHER -> FALSE)
    [] a = 6  -> (CASE b = 5 -> TRUE [] OTHER -> FALSE)
    [] a = 7  -> (CASE b = 8 -> TRUE [] OTHER -> FALSE)
    [] a = 8  -> (CASE b = 7 -> TRUE [] OTHER -> FALSE)
    [] a = 9  -> (CASE b = 9 -> TRUE [] OTHER -> FALSE)
    [] a = 10 -> (CASE b = 10 -> TRUE [] OTHER -> FALSE)
    [] OTHER  -> FALSE

\* the nested switch: the outer CASE is switch (a), each arm is switch (b)
_c_bp_is_canonical(a, b) ==
  CASE a = 0  -> (CASE b = 3 -> TRUE [] OTHER -> FALSE)
    [] a = 1  -> (CASE b = 2 -> TRUE [] OTHER -> FALSE)
    [] a = 2  -> (CASE b = 1 -> TRUE [] b = 3 -> TRUE [] OTHER -> FALSE)
    [] a = 3  -> (CASE b = 0 -> TRUE [] b = 2 -> TRUE [] OTHER -> FALSE)
    [] a = 5  -> (CASE b = 6 -> TRUE [] OTHER -> FALSE)
    [] a = 6  -> (CASE b = 5 -> TRUE [] OTHER -> FALSE)
    [] a = 7  -> (CASE b = 8 -> TRUE [] OTHER -> FALSE)
    [] a = 8  -> (CASE b = 7 -> TRUE [] OTHER -> FALSE)
    [] a = 9  -> (CASE b = 9 -> TRUE [] OTHER -> FALSE)
    [] a = 10 -> (CASE b = 10 -> TRUE [] OTHER -> FALSE)
    [] OTHER  -> FALSE

PrIdle == [pc |-> "idle", a1 |-> 0, b1 |-> 0, a2 |-> 0, b2 |-> 0,
           ret |-> 0, ret_swap |-> 0, ret_same |-> 0]

\* a call of _c_bp_is_canonical on the codes (a1, b1)
CanonCall ==
  \E a, b \in 0..(Kp - 1) :
    pr = [pc |-> "call", a1 |-> a, b1 |-> b, a2 |-> 0, b2 |-> 0,
          ret |-> FALSE, ret_swap |-> FALSE, ret_same |-> FALSE]

\* the predicate on (a, b) and, for comparison, on (b, a)
CallBpIsCanonical ==
  /\ pr.pc = "call"
  /\ pr' = [pr EXCEPT !.pc = "done",
                      !.ret = _c_bp_is_canonical(pr.a1, pr.b1),
                      !.ret_swap = _c_bp_is_canonical(pr.b1, pr.a1)]
  /\ UNCHANGED <<amb, msa, bp, cs, pid, pw, qc, ro, ix, wm>>

\* a call of _c_bp_dist on the basepairs a1:b1 and a2:b2
DistCall ==
  \E a, b, c, d \in 0..(Kp - 1) :
    pr = [pc |-> "call", a1 |-> a, b1 |-> b, a2 |-> c, b2 |-> d,
          ret |-> 0, ret_swap |-> 0, ret_same |-> 0]

\* the distance of the two pairs, of the two pairs swapped, and of a1:b1 to itself
CallBpDist ==
  /\ pr.pc = "call"
  /\ pr' = [pr EXCEPT !.pc = "done",
                      !.ret = _c_bp_dist(pr.a1, pr.b1, pr.a2, pr.b2),
                      !.ret_swap = _c_bp_dist(pr.a2, pr.b2, pr.a1, pr.b1),
                      !.ret_same = _c_bp_dist(pr.a1, pr.b1, pr.a1, pr.b1)]
  /\ UNCHANGED <<amb, msa, bp, cs, pid, pw, qc, ro, ix, wm>>

---------------------------------------------------------------------------
(* Claims about the ambiguity classifier                                   *)

\* the two-way sum a code stands for, on the counts of the call
TwoSum(code) ==
  CASE code = "M" -> amb.act + amb.cct
    [] code = "R" -> amb.act + amb.gct
    [] code = "W" -> amb.act + amb.uct
    [] code = "S" -> amb.cct + amb.gct
    [] code = "Y" -> amb.cct + amb.uct
    [] code = "K" -> amb.gct + amb.uct

TwoLetterCodes == <<"M", "R", "W", "S", "Y", "K">>

AmbTotal == amb.act + amb.cct + amb.gct + amb.uct

AmbReturned == amb.pc = "done" /\ AmbTotal > 0

\* C1: for counts with a positive total, no two-letter code has a strictly
\* larger two-way sum than the code the classifier returns.
C1_ReturnedCodeIsMax ==
  AmbReturned =>
    \A k \in 1..6 : TwoSum(TwoLetterCodes[k]) <= TwoSum(amb.ret_max_2l)

\* C2: for counts with a positive total, the returned fraction is the two-way
\* sum of the returned code divided by the total of the four counts.
C2_FractionOfReturnedCode ==
  AmbReturned =>
    amb.ret_max_2l_frac = Frac(TwoSum(amb.ret_max_2l), AmbTotal)

\* C3: when several two-way sums equal the maximum, the returned code is the
\* first of them in the order M, R, W, S, Y, K.
C3_FirstMaxInOrderWins ==
  AmbReturned =>
    \E k \in 1..6 :
      /\ amb.ret_max_2l = TwoLetterCodes[k]
      /\ \A m \in 1..6 : TwoSum(TwoLetterCodes[m]) <= TwoSum(TwoLetterCodes[k])
      /\ \A m \in 1..(k - 1) : TwoSum(TwoLetterCodes[m]) < TwoSum(TwoLetterCodes[k])

---------------------------------------------------------------------------
(* Claims about the basepair helpers                                       *)

CanonicalPairs ==
  {<<0, 3>>, <<3, 0>>, <<1, 2>>, <<2, 1>>, <<2, 3>>, <<3, 2>>,
   <<5, 6>>, <<6, 5>>, <<7, 8>>, <<8, 7>>, <<9, 9>>, <<10, 10>>}

\* C4: _c_bp_is_canonical is TRUE exactly on the twelve ordered pairs of the
\* table and FALSE on every other pair of codes, and it is symmetric.
C4_CanonicalTable ==
  pr.pc = "done" =>
    /\ pr.ret = (<<pr.a1, pr.b1>> \in CanonicalPairs)
    /\ pr.ret = pr.ret_swap

C4_Witness == pr.pc = "done" /\ pr.a1 = 3 /\ pr.b1 = 2 /\ pr.ret = TRUE

\* the number of the two positions at which the pairs a1:b1 and a2:b2 differ
NDiff == (IF pr.a1 # pr.a2 THEN 1 ELSE 0) + (IF pr.b1 # pr.b2 THEN 1 ELSE 0)

\* C5: _c_bp_dist returns the number of positions (0, 1 or 2) at which the two
\* pairs differ; a pair is at distance 0 from itself and the distance does not
\* change when the two pairs are swapped.
C5_DistCountsDifferences ==
  pr.pc = "done" =>
    /\ pr.ret = NDiff
    /\ pr.ret_same = 0
    /\ pr.ret_swap = pr.ret

C5_Witness == pr.pc = "done" /\ pr.a1 = pr.a2 /\ pr.b1 # pr.b2 /\ pr.ret = 1

---------------------------------------------------------------------------
MsaIdle == [nseq |-> 0, alen |-> 0]

---------------------------------------------------------------------------
(* The alignment and its consensus structure                               *)

\* residue codes the alignments of the model are built from: A, U and the gap
ResidueCodes == {0, 3, K}

\* sequence weights msa->wgt[i] the alignments of the model are built from
Weights == {D(1), D(2)}

\* characters of msa->ss_cons: unpaired, a basepair's two halves, a pseudoknot's
SSChars == {".", "<", ">", "A", "a"}

IsAlpha(c) == c \in {"A", "a"}

\* esl_wuss_nopseudo: every pseudoknot letter becomes '.'
esl_wuss_nopseudo(ss1) ==
  [pos \in DOMAIN ss1 |-> IF IsAlpha(ss1[pos]) THEN "." ELSE ss1[pos]]

\* esl_wuss2ct from position pos on: pda0 is the stack of open brackets, pda1
\* the stack of open pseudoknot letters, ct the partner array built so far
RECURSIVE Wuss2ctFrom(_, _, _, _, _, _)
Wuss2ctFrom(ss, len, pos, pda0, pda1, ct) ==
  IF pos > len
  THEN IF Len(pda0) # 0 \/ Len(pda1) # 0
       THEN [status |-> "eslESYNTAX", ct |-> ct]
       ELSE [status |-> "eslOK", ct |-> ct]
  ELSE CASE ss[pos] = "<" ->
              Wuss2ctFrom(ss, len, pos + 1, <<pos>> \o pda0, pda1, ct)
         [] ss[pos] = ">" ->
              IF Len(pda0) = 0
              THEN [status |-> "eslESYNTAX", ct |-> ct]
              ELSE Wuss2ctFrom(ss, len, pos + 1, Tail(pda0), pda1,
                               [ct EXCEPT ![pos] = Head(pda0), ![Head(pda0)] = pos])
         [] ss[pos] = "A" ->
              Wuss2ctFrom(ss, len, pos + 1, pda0, <<pos>> \o pda1, ct)
         [] ss[pos] = "a" ->
              IF Len(pda1) = 0
              THEN [status |-> "eslESYNTAX", ct |-> ct]
              ELSE Wuss2ctFrom(ss, len, pos + 1, pda0, Tail(pda1),
                               [ct EXCEPT ![pos] = Head(pda1), ![Head(pda1)] = pos])
         [] OTHER ->
              Wuss2ctFrom(ss, len, pos + 1, pda0, pda1, ct)

\* esl_wuss2ct: ct[1..len] is the partner of each column, 0 when unpaired
esl_wuss2ct(ss, len) ==
  Wuss2ctFrom(ss, len, 1, <<>>, <<>>, [pos \in 0..len |-> 0])

\* the columns of ss_cons that the de-knotted structure pairs
PairedColumns(ss) ==
  LET r == esl_wuss2ct(esl_wuss_nopseudo(ss), Len(ss))
  IN  IF r.status = "eslOK" THEN {pos \in 1..Len(ss) : r.ct[pos] # 0} ELSE {}

\* a digitized alignment with a consensus structure.  _c_rfam_bp_stats reads
\* residues at paired columns only, so the unpaired columns all hold an A.
MsaGiven ==
  \E n \in 0..MaxSeq, l \in 1..MaxLen :
    /\ n * l <= MaxCells
    /\ \E ss \in [1..l -> SSChars] :
         LET paired == PairedColumns(ss)
             rows == {row \in [1..l -> ResidueCodes] :
                        \A c \in 1..l : c \notin paired => row[c] = 0}
         IN  \E ax \in [0..(n - 1) -> rows], wgt \in [0..(n - 1) -> Weights] :
               msa = [nseq |-> n, alen |-> l, ax |-> ax, wgt |-> wgt,
                      ss_cons |-> ss]

---------------------------------------------------------------------------
(* _c_rfam_bp_stats                                                        *)

\* esl_vec_DSum over v[0..n-1]
RECURSIVE esl_vec_DSum(_, _)
esl_vec_DSum(v, n) == IF n = 0 THEN D(0) ELSE DAdd(esl_vec_DSum(v, n - 1), v[n - 1])

\* faulty variant: every paired column recorded, the right halves too
RECURSIVE LocateBothHalves(_, _, _, _, _)
LocateBothHalves(ct, alen, apos, rposA, nbp) ==
  IF apos >= alen THEN [rposA |-> rposA, nbp |-> nbp]
  ELSE IF ct[apos + 1] # 0
       THEN LocateBothHalves(ct, alen, apos + 1,
                             [rposA EXCEPT ![apos] = ct[apos + 1] - 1], nbp + 1)
       ELSE LocateBothHalves(ct, alen, apos + 1, rposA, nbp)

\* the loop that locates the basepairs, from column apos on
RECURSIVE LocateFrom(_, _, _, _, _)
LocateFrom(ct, alen, apos, rposA, nbp) ==
  IF apos >= alen THEN [rposA |-> rposA, nbp |-> nbp]
  ELSE IF ct[apos + 1] > apos + 1
       THEN LocateFrom(ct, alen, apos + 1,
                       [rposA EXCEPT ![apos] = ct[apos + 1] - 1], nbp + 1)
       ELSE LocateFrom(ct, alen, apos + 1, rposA, nbp)

\* faulty variant: the division done without the test against 1E-10
RECURSIVE NormaliseNoGuard(_, _, _, _, _)
NormaliseNoGuard(alen, apos, rposA, covA, cov_cntA) ==
  IF apos >= alen THEN covA
  ELSE IF rposA[apos] # -1
       THEN NormaliseNoGuard(alen, apos + 1, rposA,
                             [covA EXCEPT ![apos] = DDiv(covA[apos], cov_cntA[apos])],
                             cov_cntA)
       ELSE NormaliseNoGuard(alen, apos + 1, rposA, covA, cov_cntA)

\* the loop that divides each basepair's covA by its cov_cntA, from column apos on.
\* fabs(cov_cntA[apos]) > 1E-10 is the test against 0 here: a value of the model
\* is a ratio of integers below 2^31, so it is 0 or larger than 1E-10.
RECURSIVE NormaliseFrom(_, _, _, _, _)
NormaliseFrom(alen, apos, rposA, covA, cov_cntA) ==
  IF apos >= alen THEN covA
  ELSE IF rposA[apos] # -1 /\ DGt(DFabs(cov_cntA[apos]), D(0))
       THEN NormaliseFrom(alen, apos + 1, rposA,
                          [covA EXCEPT ![apos] = DDiv(covA[apos], cov_cntA[apos])],
                          cov_cntA)
       ELSE NormaliseFrom(alen, apos + 1, rposA, covA, cov_cntA)

\* faulty variant: the mean taken over the per-basepair ratios
MeanCovOfRatios(nbp, covA, cov_cntA, alen) ==
  IF nbp = 0 THEN D(0)
  ELSE DDiv(esl_vec_DSum([apos \in 0..(alen - 1) |->
                            IF DGt(DFabs(cov_cntA[apos]), D(0))
                            THEN DDiv(covA[apos], cov_cntA[apos])
                            ELSE covA[apos]], alen),
            D(nbp))

\* faulty variant: the nbp == 0 guard left out
MeanCovNoGuard(nbp, covA, cov_cntA, alen) ==
  DDiv(esl_vec_DSum(covA, alen), esl_vec_DSum(cov_cntA, alen))

\* the statement computing mean_cov
MeanCov(nbp, covA, cov_cntA, alen) ==
  IF nbp = 0 THEN D(0)
  ELSE DDiv(esl_vec_DSum(covA, alen), esl_vec_DSum(cov_cntA, alen))

\* the test that lets sequence i's pair a1:b1 into the covariation loop
PairIsExamined(a1, b1) == a1 # K \/ b1 # K

\* faulty variant: the sign decided by the first sequence's pair alone
ContribFirstOnly(iscanonical1, iscanonical2, d, seqwt1, seqwt2) ==
  IF iscanonical1
  THEN DMul(D(d), DAdd(seqwt1, seqwt2))
  ELSE DMul(D(-1 * d), DAdd(seqwt1, seqwt2))

\* contrib for the pairs a1:b1 and a2:b2 of two sequences
Contrib(iscanonical1, iscanonical2, d, seqwt1, seqwt2) ==
  IF iscanonical1 /\ iscanonical2
  THEN DMul(D(d), DAdd(seqwt1, seqwt2))
  ELSE DMul(D(-1 * d), DAdd(seqwt1, seqwt2))

BpIdle == [pc |-> "idle"]

\* the blocks the function allocates, in the order of its ESL_ALLOC calls
BpAllocOrder ==
  <<"ct", "ss_nopseudo", "rposA", "pos_canA", "seq_canA", "covA", "cov_cntA">>

\* the pointers the ERROR path frees
BpErrorFrees == {"cov_cntA", "rposA", "seq_canA", "pos_canA", "covA"}

\* the frame at entry; fail_at is the ESL_ALLOC call that fails (0: none does),
\* live the blocks allocated and not freed, freed the blocks freed
BpFrame(fail_at) ==
  [pc |-> "call", ct |-> <<>>, ss_nopseudo |-> <<>>, nbp |-> 0,
   rposA |-> <<>>, pos_canA |-> <<>>, seq_canA |-> <<>>,
   covA |-> <<>>, cov_cntA |-> <<>>, mean_cov |-> D(0),
   i |-> 0, apos |-> 0, j |-> 0, iscanonical1 |-> FALSE,
   examined |-> {}, counted |-> {},
   fail_at |-> fail_at, live |-> {}, freed |-> {}]

BpCall == bp = BpFrame(0)

\* the frame after the ESL_ALLOC call fail_at has failed and the ERROR path
\* has run: the blocks allocated before it, less those the ERROR path frees
BpOutOfMemory(f) ==
  LET got == f.live \cup {BpAllocOrder[k] : k \in 1..(f.fail_at - 1)}
  IN  [f EXCEPT !.pc = "croak",
                !.live = got \ BpErrorFrees,
                !.freed = got \cap BpErrorFrees]

\* the next (i, apos) of the two outer loops
NextColumn(f) ==
  IF f.apos + 1 < msa.alen
  THEN [f EXCEPT !.pc = "examine", !.apos = f.apos + 1]
  ELSE [f EXCEPT !.pc = "examine", !.apos = 0, !.i = f.i + 1]

\* faulty variant: ct built from ss_cons with its pseudoknots left in
BpParseKeepKnots ==
  /\ bp.pc = "call"
  /\ LET nopseudo == esl_wuss_nopseudo(msa.ss_cons)
         r == esl_wuss2ct(msa.ss_cons, msa.alen)
     IN  IF bp.fail_at \in 1..2
         THEN bp' = BpOutOfMemory(bp)
         ELSE IF r.status # "eslOK"
         THEN bp' = [bp EXCEPT !.pc = "croak", !.ss_nopseudo = nopseudo,
                               !.live = {"ct", "ss_nopseudo"}]
         ELSE bp' = [bp EXCEPT !.pc = "locate", !.ss_nopseudo = nopseudo,
                               !.ct = r.ct,
                               !.live = {"ct", "ss_nopseudo"}]
  /\ UNCHANGED <<amb, pr, msa, cs, pid, pw, qc, ro, ix, wm>>

\* allocate ct and ss_nopseudo (a failure ends in the ERROR path), de-knot
\* ss_cons and build ct; croak when the structure is inconsistent
BpParse ==
  /\ bp.pc = "call"
  /\ LET nopseudo == esl_wuss_nopseudo(msa.ss_cons)
         r == esl_wuss2ct(nopseudo, msa.alen)
     IN  IF bp.fail_at \in 1..2
         THEN bp' = BpOutOfMemory(bp)
         ELSE IF r.status # "eslOK"
         THEN bp' = [bp EXCEPT !.pc = "croak", !.ss_nopseudo = nopseudo,
                               !.live = {"ct", "ss_nopseudo"}]
         ELSE bp' = [bp EXCEPT !.pc = "locate", !.ss_nopseudo = nopseudo,
                               !.ct = r.ct,
                               !.live = {"ct", "ss_nopseudo"}]
  /\ UNCHANGED <<amb, pr, msa, cs, pid, pw, qc, ro, ix, wm>>

\* allocate and initialise the result arrays, locate and count the basepairs;
\* a failed allocation (of the five made here) ends in the ERROR path
BpLocate ==
  /\ bp.pc = "locate"
  /\ LET r == LocateFrom(bp.ct, msa.alen, 0,
                         [apos \in 0..(msa.alen - 1) |-> -1], 0)
     IN  IF bp.fail_at \in 3..7
         THEN bp' = BpOutOfMemory([bp EXCEPT !.live = {}])
         ELSE bp' = [bp EXCEPT !.pc = "examine",
                          !.rposA = r.rposA, !.nbp = r.nbp,
                          !.pos_canA = [apos \in 0..(msa.alen - 1) |-> 0],
                          !.seq_canA = [i \in 0..(msa.nseq - 1) |-> 0],
                          !.covA = [apos \in 0..(msa.alen - 1) |-> D(0)],
                          !.cov_cntA = [apos \in 0..(msa.alen - 1) |-> D(0)],
                          !.i = 0, !.apos = 0,
                          !.live = {BpAllocOrder[k] : k \in 1..7}]
  /\ UNCHANGED <<amb, pr, msa, cs, pid, pw, qc, ro, ix, wm>>

\* one iteration of the loops over i and apos, up to the loop over j
BpExamine ==
  /\ bp.pc = "examine"
  /\ bp.i < msa.nseq
  /\ LET apos == bp.apos
         i == bp.i
     IN  IF bp.rposA[apos] # -1
         THEN LET a1 == msa.ax[i][apos + 1]
                  b1 == msa.ax[i][bp.rposA[apos] + 1]
                  iscanonical1 == _c_bp_is_canonical(a1, b1)
              IN  IF PairIsExamined(a1, b1)
                  THEN bp' = [bp EXCEPT
                         !.pc = "pair",
                         !.iscanonical1 = iscanonical1,
                         !.seq_canA[i] = IF iscanonical1 THEN @ + 1 ELSE @,
                         !.pos_canA[apos] = IF iscanonical1 THEN @ + 1 ELSE @,
                         !.examined = @ \cup {<<i, apos>>},
                         !.j = i + 1]
                  ELSE bp' = NextColumn(bp)
         ELSE bp' = NextColumn(bp)
  /\ UNCHANGED <<amb, pr, msa, cs, pid, pw, qc, ro, ix, wm>>

\* one iteration of the loop over j, or its end
BpPair ==
  /\ bp.pc = "pair"
  /\ LET apos == bp.apos
         rpos == bp.rposA[apos]
         i == bp.i
         j == bp.j
     IN  IF j < msa.nseq
         THEN LET a1 == msa.ax[i][apos + 1]
                  b1 == msa.ax[i][rpos + 1]
                  a2 == msa.ax[j][apos + 1]
                  b2 == msa.ax[j][rpos + 1]
                  iscanonical2 == _c_bp_is_canonical(a2, b2)
                  d == _c_bp_dist(a1, b1, a2, b2)
                  contrib == Contrib(bp.iscanonical1, iscanonical2, d,
                                     msa.wgt[i], msa.wgt[j])
              IN  bp' = [bp EXCEPT
                     !.covA[apos] = DAdd(@, contrib),
                     !.cov_cntA[apos] = DAdd(@, DAdd(msa.wgt[i], msa.wgt[j])),
                     !.counted = @ \cup {<<i, j, apos>>},
                     !.j = j + 1]
         ELSE bp' = NextColumn(bp)
  /\ UNCHANGED <<amb, pr, msa, cs, pid, pw, qc, ro, ix, wm>>

\* the loops are over: compute the mean covariation from the sums
BpMean ==
  /\ bp.pc = "examine"
  /\ bp.i >= msa.nseq
  /\ bp' = [bp EXCEPT !.pc = "normalise",
                      !.mean_cov = MeanCov(bp.nbp, bp.covA, bp.cov_cntA, msa.alen)]
  /\ UNCHANGED <<amb, pr, msa, cs, pid, pw, qc, ro, ix, wm>>

\* divide each basepair's covA by its count, and return
BpNormalise ==
  /\ bp.pc = "normalise"
  /\ bp' = [bp EXCEPT !.pc = "done",
                      !.covA = NormaliseFrom(msa.alen, 0, bp.rposA, bp.covA,
                                             bp.cov_cntA),
                      !.live = @ \ {"cov_cntA"},
                      !.freed = @ \cup {"cov_cntA"}]
  /\ UNCHANGED <<amb, pr, msa, cs, pid, pw, qc, ro, ix, wm>>

BpNext == BpParse \/ BpLocate \/ BpExamine \/ BpPair \/ BpMean \/ BpNormalise

BpInit == MsaGiven /\ BpCall /\ amb = AmbIdle /\ pr = PrIdle
          /\ cs = CsIdle /\ pid = PidIdle /\ pw = PwIdle /\ qc = QcIdle
          /\ ro = RoIdle /\ ix = IxIdle /\ wm = WmIdle

SpecBp == BpInit /\ [][BpNext]_vars

---------------------------------------------------------------------------
(* Claims about _c_rfam_bp_stats                                           *)

\* the residues of sequence i at the basepair whose left column is apos
LeftRes(i, apos) == msa.ax[i][apos + 1]

RightRes(i, apos) == msa.ax[i][bp.rposA[apos] + 1]

IsCanonicalPair(i, apos) == <<LeftRes(i, apos), RightRes(i, apos)>> \in CanonicalPairs

\* sequence i has a residue, not a gap, at both columns of the basepair
HasNonGapPair(i, apos) == LeftRes(i, apos) # K /\ RightRes(i, apos) # K

\* the number of the two columns at which sequences i and j differ
PairDiff(i, j, apos) ==
  (IF LeftRes(i, apos) # LeftRes(j, apos) THEN 1 ELSE 0)
  + (IF RightRes(i, apos) # RightRes(j, apos) THEN 1 ELSE 0)

PairWeight(i, j) == DAdd(msa.wgt[i], msa.wgt[j])

\* what the sequence pair (i, j) is to add to the contribution sum of apos
PairContribution(i, j, apos) ==
  IF IsCanonicalPair(i, apos) /\ IsCanonicalPair(j, apos)
  THEN DMul(D(PairDiff(i, j, apos)), PairWeight(i, j))
  ELSE DMul(D(0 - PairDiff(i, j, apos)), PairWeight(i, j))

\* the sums of PairContribution and of PairWeight over a set of <<i, j, apos>>
RECURSIVE SumContribution(_)
SumContribution(S) ==
  IF S = {} THEN D(0)
  ELSE LET t == CHOOSE t \in S : TRUE
       IN  DAdd(PairContribution(t[1], t[2], t[3]), SumContribution(S \ {t}))

RECURSIVE SumWeight(_)
SumWeight(S) ==
  IF S = {} THEN D(0)
  ELSE LET t == CHOOSE t \in S : TRUE
       IN  DAdd(PairWeight(t[1], t[2]), SumWeight(S \ {t}))

LeftColumns == {apos \in 0..(msa.alen - 1) : bp.rposA[apos] # -1}

\* the mean of the reported per-basepair scores
MeanOfRatios == DDiv(esl_vec_DSum(bp.covA, msa.alen), D(bp.nbp))

\* C6: with at least one basepair, the returned mean_cov is the sum of all
\* counted contributions divided by the sum of all counted weight terms, over
\* all basepairs at once, and it is still that after the per-basepair division.
C6_MeanIsGlobalRatio ==
  (bp.pc = "done" /\ bp.nbp > 0) =>
    bp.mean_cov = DDiv(SumContribution(bp.counted), SumWeight(bp.counted))

C6_Witness ==
  /\ bp.pc = "done"
  /\ bp.nbp = 2
  /\ IsFinite(bp.mean_cov)
  /\ bp.mean_cov # D(0)
  /\ bp.mean_cov # MeanOfRatios

\* C7: each step of the loop over j adds PairContribution(i, j, apos) to covA[apos]
\* and weight[i] + weight[j] to cov_cntA[apos], and changes no other entry.
C7_PairStepAddsContribution ==
  [][(bp.pc = "pair" /\ bp.j < msa.nseq) =>
       /\ bp'.covA = [bp.covA EXCEPT ![bp.apos] =
                        DAdd(@, PairContribution(bp.i, bp.j, bp.apos))]
       /\ bp'.cov_cntA = [bp.cov_cntA EXCEPT ![bp.apos] =
                            DAdd(@, PairWeight(bp.i, bp.j))]]_vars

C7_Witness ==
  /\ bp.pc = "normalise"
  /\ \E p, q \in LeftColumns : DGt(bp.covA[p], D(0)) /\ DGt(D(0), bp.covA[q])

\* C8: a sequence pair (i, j) is counted at a basepair only if both sequences
\* have a residue, not a gap, at both of its columns.
C8_CountedPairsAreUngapped ==
  \A t \in bp.counted : HasNonGapPair(t[1], t[3]) /\ HasNonGapPair(t[2], t[3])

\* C9: sequence i is examined at a basepair (its canonicality evaluated, its
\* counts possibly incremented) only if it has a residue at both columns.
C9_ExaminedPairsAreUngapped ==
  \A t \in bp.examined : HasNonGapPair(t[1], t[2])

\* the consensus structure holds no bracket: nothing but dots once de-knotted
NoBrackets == \A pos \in 1..msa.alen : msa.ss_cons[pos] \notin {"<", ">"}

\* C10: for a consensus structure without basepairs the pass returns nbp = 0,
\* rposA = -1 everywhere, every seq_canA = 0 and mean_cov = 0.
C10_NoBasepairs ==
  (bp.pc = "done" /\ NoBrackets) =>
    /\ bp.nbp = 0
    /\ \A apos \in 0..(msa.alen - 1) : bp.rposA[apos] = -1
    /\ \A i \in 0..(msa.nseq - 1) : bp.seq_canA[i] = 0
    /\ bp.mean_cov = D(0)

C10_Witness ==
  /\ bp.pc = "done"
  /\ msa.nseq = 2
  /\ msa.alen = 4
  /\ \A pos \in 1..msa.alen : msa.ss_cons[pos] = "."

\* the sequence pairs counted at the basepair whose left column is apos
CountedAt(apos) == {t \in bp.counted : t[3] = apos}

C12_PairsRecordedOnce ==
  bp.pc \in {"examine", "pair", "normalise", "done"} =>
    /\ \A apos \in 0..(msa.alen - 1) :
         IF bp.ct[apos + 1] > apos + 1
         THEN bp.rposA[apos] = bp.ct[apos + 1] - 1 /\ bp.rposA[apos] > apos
         ELSE bp.rposA[apos] = -1
    /\ \A p, q \in 1..msa.alen :
         (bp.ct[p] = q /\ p < q) => (bp.rposA[p - 1] = q - 1 /\ bp.rposA[q - 1] = -1)
    /\ bp.nbp = Cardinality({apos \in 0..(msa.alen - 1) : bp.rposA[apos] # -1})

C12_Witness ==
  /\ bp.pc = "done"
  /\ msa.alen = 4
  /\ bp.rposA = [apos \in 0..3 |-> IF apos = 0 THEN 3 ELSE IF apos = 1 THEN 2 ELSE -1]
  /\ bp.nbp = 2



\* the de-knotted consensus structure
Deknotted == [pos \in 1..msa.alen |->
                IF msa.ss_cons[pos] \in {"<", ">"} THEN msa.ss_cons[pos] ELSE "."]

\* the brackets of each kind among the first k columns
Opens(k) == Cardinality({pos \in 1..k : Deknotted[pos] = "<"})

Closes(k) == Cardinality({pos \in 1..k : Deknotted[pos] = ">"})

\* every closing bracket has its opening bracket, and the other way round
Balanced ==
  /\ \A k \in 1..msa.alen : Closes(k) <= Opens(k)
  /\ Opens(msa.alen) = Closes(msa.alen)

\* C24: the partner array that _c_rfam_bp_stats works from is symmetric, pairs
\* no column with itself and holds no two crossing pairs p1 < p2 < q1 < q2; a
\* structure that is unbalanced once de-knotted ends the call in its croak and
\* a balanced one does not.
C24_PartnerMap ==
  /\ bp.pc \in {"locate", "examine", "pair", "normalise", "done"} =>
       /\ Balanced
       /\ \A p \in 1..msa.alen :
            /\ bp.ct[p] # p
            /\ bp.ct[p] # 0 => (bp.ct[p] \in 1..msa.alen /\ bp.ct[bp.ct[p]] = p)
       /\ \A p1, p2 \in 1..msa.alen :
            ~(p1 < p2 /\ p2 < bp.ct[p1] /\ bp.ct[p1] < bp.ct[p2])
  /\ bp.pc = "croak" => ~Balanced

C24_Witness ==
  /\ bp.pc = "done"
  /\ msa.ss_cons = <<"<", "A", ">", "a">>
  /\ bp.ct[1] = 3 /\ bp.ct[3] = 1
  /\ bp.ct[2] = 0 /\ bp.ct[4] = 0

\* ---------------------------------------------------------------------------
\* _c_rfam_comp_and_len_stats: weighted composition and lengths
\* ---------------------------------------------------------------------------

\* cells of an alignment given to the composition pass
MaxCompCells == 4

\* residue codes of a digital row: two bases, the gap, a degenerate residue,
\* and the missing-data code
CompCodes == {0, 3, K, 5, Kp - 1}

TextChars == {"A", "-"}

\* a digital alignment (msa->flags & eslMSA_DIGITAL, rows in ax) or a text
\* alignment (rows in aseq, ax is NULL)
CompMsaGiven ==
  \E n \in 0..MaxSeq, l \in 1..MaxLen :
    /\ n * l <= MaxCompCells
    /\ \E wgt \in [0..(n - 1) -> Weights] :
         \/ \E ax \in [0..(n - 1) -> [1..l -> CompCodes]] :
              msa = [nseq |-> n, alen |-> l, digital |-> TRUE,
                     ax |-> ax, aseq |-> << >>, wgt |-> wgt]
         \/ \E aseq \in [0..(n - 1) -> [1..l -> TextChars]] :
              msa = [nseq |-> n, alen |-> l, digital |-> FALSE,
                     ax |-> << >>, aseq |-> aseq, wgt |-> wgt]

\* the alphabet's classification of a code as a residue: a base or a
\* degenerate residue, not the gap, the nonresidue or the missing-data code
esl_abc_XIsResidue(x) == x < K \/ (x > K /\ x < Kp - 2)

\* the alphabet's weighted count of one code into the K+1 buckets of ct: a
\* base adds wt to its own bucket, the gap to bucket K, any other code to none
esl_abc_DCount(ct, x, wt) ==
  IF x <= K THEN [ct EXCEPT ![x] = DAdd(@, wt)] ELSE ct

esl_vec_DSet(n, value) == [a \in 0..(n - 1) |-> value]

esl_vec_DAdd(vec1, vec2, n) == [a \in 0..(n - 1) |-> DAdd(vec1[a], vec2[a])]

ESL_MIN(a, b) == IF a < b THEN a ELSE b

ESL_MAX(a, b) == IF a > b THEN a ELSE b

\* faulty variant: every residue counted with weight 1
CountWeightOne(ct, x, seqwt) == esl_abc_DCount(ct, x, D(1))

\* the count of one residue of a sequence of weight seqwt
CountResidue(ct, x, seqwt) == esl_abc_DCount(ct, x, seqwt)

\* the length of a sequence after one more column
CountLength(len, x) == IF esl_abc_XIsResidue(x) THEN len + 1 ELSE len

\* faulty variant: the first sequence treated like the others
LenMinNoFirst(i, len_min, len) == ESL_MIN(len_min, len)

LenMin(i, len_min, len) == IF i = 0 THEN len ELSE ESL_MIN(len_min, len)

LenMax(i, len_max, len) == IF i = 0 THEN len ELSE ESL_MAX(len_max, len)

\* the blocks the function allocates, in the order of its ESL_ALLOC calls
CsAllocOrder(nseq) ==
  << <<"abcAA">>, <<"abc_totA">> >> \o [k \in 1..nseq |-> <<"abcAA", k - 1>>]
    \o << <<"lenA">> >>

CsRows(nseq) == {<<"abcAA", k>> : k \in 0..(nseq - 1)}

\* faulty variant: the flag not looked at
AssumeDigital(m) == TRUE

\* msa->flags & eslMSA_DIGITAL
IsDigital(m) == m.digital

\* the frame at entry; fail_at is the ESL_ALLOC call that fails (0: none does)
CsFrame(fail_at) ==
  [pc |-> "call", fail_at |-> fail_at, live |-> {}, freed |-> {}, wild |-> {},
   abcAA |-> << >>, abc_totA |-> << >>, lenA |-> << >>,
   len_tot |-> 0, len_min |-> 0, len_max |-> 0, i |-> 0, apos |-> 0]

CsCall == \E f \in 0..(msa.nseq + 3) : cs = CsFrame(f)

\* the contract check on the digital flag
CsEnter ==
  /\ cs.pc = "call"
  /\ cs' = [cs EXCEPT !.pc = IF IsDigital(msa) THEN "alloc" ELSE "croak"]
  /\ UNCHANGED <<amb, pr, msa, bp, pid, pw, qc, ro, ix, wm>>

\* the allocations, and the ERROR path when one of them fails.  An abcAA[i]
\* that no ESL_ALLOC has assigned yet is uninitialised: the ERROR path may
\* find any value there, NULL (skipped) or not (freed).
CsAlloc ==
  /\ cs.pc = "alloc"
  /\ LET order == CsAllocOrder(msa.nseq)
         fails == cs.fail_at \in 1..Len(order)
         got   == IF fails THEN {order[k] : k \in 1..(cs.fail_at - 1)}
                  ELSE {order[k] : k \in 1..Len(order)}
         unset == (CsRows(msa.nseq) \ got) \ (IF fails THEN {order[cs.fail_at]} ELSE {})
     IN  IF fails
         THEN \E garbage \in SUBSET unset :
                LET released == IF <<"abcAA">> \in got
                                THEN (got \cap CsRows(msa.nseq)) \cup garbage
                                     \cup (got \cap {<<"abcAA">>, <<"abc_totA">>, <<"lenA">>})
                                ELSE {}
                IN  cs' = [cs EXCEPT !.pc = "croak",
                                     !.live = got \ released,
                                     !.freed = released \cap got,
                                     !.wild = released \ got]
         ELSE cs' = [cs EXCEPT !.pc = "count",
                               !.live = got,
                               !.abcAA = [k \in 0..(msa.nseq - 1) |-> esl_vec_DSet(K + 1, D(0))],
                               !.abc_totA = esl_vec_DSet(K + 1, D(0)),
                               !.lenA = [k \in 0..(msa.nseq - 1) |-> 0]]
  /\ UNCHANGED <<amb, pr, msa, bp, pid, pw, qc, ro, ix, wm>>

\* one column of sequence i
CsCount ==
  /\ cs.pc = "count"
  /\ cs.i < msa.nseq
  /\ cs.apos < msa.alen
  /\ LET x == msa.ax[cs.i][cs.apos + 1]
     IN  cs' = [cs EXCEPT !.lenA[cs.i] = CountLength(@, x),
                          !.abcAA[cs.i] = CountResidue(@, x, msa.wgt[cs.i]),
                          !.apos = cs.apos + 1]
  /\ UNCHANGED <<amb, pr, msa, bp, pid, pw, qc, ro, ix, wm>>

\* the end of sequence i: its counts join the totals
CsSeqEnd ==
  /\ cs.pc = "count"
  /\ cs.i < msa.nseq
  /\ cs.apos = msa.alen
  /\ cs' = [cs EXCEPT !.abc_totA = esl_vec_DAdd(@, cs.abcAA[cs.i], K + 1),
                      !.len_tot = @ + cs.lenA[cs.i],
                      !.len_min = LenMin(cs.i, @, cs.lenA[cs.i]),
                      !.len_max = LenMax(cs.i, @, cs.lenA[cs.i]),
                      !.i = cs.i + 1,
                      !.apos = 0]
  /\ UNCHANGED <<amb, pr, msa, bp, pid, pw, qc, ro, ix, wm>>

CsReturn ==
  /\ cs.pc = "count"
  /\ cs.i >= msa.nseq
  /\ cs' = [cs EXCEPT !.pc = "done"]
  /\ UNCHANGED <<amb, pr, msa, bp, pid, pw, qc, ro, ix, wm>>

CsNext == CsEnter \/ CsAlloc \/ CsCount \/ CsSeqEnd \/ CsReturn

CompInit == CompMsaGiven /\ CsCall /\ amb = AmbIdle /\ pr = PrIdle /\ bp = BpIdle
            /\ pid = PidIdle /\ pw = PwIdle /\ qc = QcIdle
            /\ ro = RoIdle /\ ix = IxIdle /\ wm = WmIdle

SpecComp == CompInit /\ [][CsNext]_vars

\* the code counted by the step that has just been taken
CsCounted == msa.ax[cs.i][cs.apos + 1]

\* a step that counts one column
CsCountStep == cs.pc = "count" /\ cs'.pc = "count" /\ cs'.apos = cs.apos + 1

TrueLength(i) == Cardinality({c \in 1..msa.alen : esl_abc_XIsResidue(msa.ax[i][c])})

RECURSIVE SumLengths(_)
SumLengths(n) == IF n = 0 THEN 0 ELSE SumLengths(n - 1) + TrueLength(n - 1)

RECURSIVE SumBucket(_, _)
SumBucket(a, n) == IF n = 0 THEN D(0) ELSE DAdd(SumBucket(a, n - 1), cs.abcAA[n - 1][a])

\* C14: at return lenA[i] is the number of columns where sequence i has a
\* residue, len_tot their sum, abc_totA[a] the sum of abcAA[i][a] over i, and
\* len_min / len_max the least / greatest lenA[i]; with no sequence all three
\* are 0 and with one sequence len_min = len_max = lenA[0].
C14_LengthsAndTotals ==
  cs.pc = "done" =>
    /\ \A i \in 0..(msa.nseq - 1) : cs.lenA[i] = TrueLength(i)
    /\ cs.len_tot = SumLengths(msa.nseq)
    /\ \A a \in 0..K : cs.abc_totA[a] = SumBucket(a, msa.nseq)
    /\ IF msa.nseq = 0
       THEN cs.len_min = 0 /\ cs.len_max = 0 /\ cs.len_tot = 0
       ELSE /\ \E i \in 0..(msa.nseq - 1) : cs.len_min = TrueLength(i)
            /\ \E i \in 0..(msa.nseq - 1) : cs.len_max = TrueLength(i)
            /\ \A i \in 0..(msa.nseq - 1) :
                 cs.len_min <= TrueLength(i) /\ TrueLength(i) <= cs.len_max
    /\ msa.nseq = 1 => (cs.len_min = cs.lenA[0] /\ cs.len_max = cs.lenA[0])

C14_Witness ==
  /\ cs.pc = "done"
  /\ msa.nseq = 2
  /\ cs.lenA[0] = 2
  /\ cs.lenA[1] = 1
  /\ cs.len_min = 1
  /\ cs.len_max = 2
  /\ cs.len_tot = 3
  /\ cs.abc_totA[3] = D(3)

\* ---------------------------------------------------------------------------
\* pairwise identity: _c_rfam_pid_stats and _c_pairwise_identity
\* ---------------------------------------------------------------------------

MaxPidSeq == 3     \* msa->nseq of an alignment given to the identity functions
MaxPidLen == 2     \* msa->alen of such an alignment
MaxPidCells == 6   \* msa->nseq * msa->alen of such an alignment

\* residue codes of a digital row: two bases and the gap
PidCodes == {0, 3, K}

\* rows of alen columns, and rows one column short of it
RowsOf(codes, alen) == UNION {[1..m -> codes] : m \in {alen - 1, alen}}

\* a digital or a text alignment whose rows may differ in length
PidMsaGiven ==
  \E n \in 0..MaxPidSeq, l \in 1..MaxPidLen :
    /\ n * l <= MaxPidCells
    /\ \/ \E ax \in [0..(n - 1) -> RowsOf(PidCodes, l)] :
            msa = [nseq |-> n, alen |-> l, digital |-> TRUE,
                   ax |-> ax, aseq |-> << >>, wgt |-> [k \in 0..(n - 1) |-> D(1)]]
       \/ \E aseq \in [0..(n - 1) -> RowsOf(TextChars, l)] :
            msa = [nseq |-> n, alen |-> l, digital |-> FALSE,
                   ax |-> << >>, aseq |-> aseq, wgt |-> [k \in 0..(n - 1) |-> D(1)]]

\* the fractional identity of two rows: the columns where both rows hold the
\* same residue over the columns where both hold a residue (0 when there is
\* none); rows of different lengths are an error
PairId(row1, row2, gap) ==
  IF Len(row1) # Len(row2) THEN [status |-> "eslEINVAL", pid |-> D(0)]
  ELSE LET both   == {c \in 1..Len(row1) : row1[c] # gap /\ row2[c] # gap}
           idents == {c \in both : row1[c] = row2[c]}
       IN  [status |-> "eslOK",
            pid |-> IF both = {} THEN D(0)
                    ELSE Frac(Cardinality(idents), Cardinality(both))]

esl_dst_XPairId(ax1, ax2) == PairId(ax1, ax2, K)

esl_dst_CPairId(aseq1, aseq2) == PairId(aseq1, aseq2, "-")

\* the call made for sequences i and j, by the mode of the alignment
PairIdOf(i, j) ==
  IF msa.digital THEN esl_dst_XPairId(msa.ax[i], msa.ax[j])
  ELSE esl_dst_CPairId(msa.aseq[i], msa.aseq[j])

\* ESL_MIN and ESL_MAX on doubles
DMin(a, b) == IF DGt(b, a) THEN a ELSE b

DMax(a, b) == IF DGt(a, b) THEN a ELSE b

\* the final division of the sum by the number of pairs
PidMean(pid_mean, nseq) == DDiv(pid_mean, D((nseq * (nseq - 1)) \div 2))

PidFrame ==
  [pc |-> "pairs", i |-> 0, j |-> 1, status |-> "eslOK", visited |-> << >>,
   pid_mean |-> D(0), pid_min |-> D(1), pid_max |-> D(0),
   ret_pid_mean |-> "unset", ret_pid_min |-> "unset", ret_pid_max |-> "unset"]

PidCall == pid = PidFrame

\* one pair of the double loop
PidPair ==
  /\ pid.pc = "pairs"
  /\ pid.i < msa.nseq
  /\ pid.j < msa.nseq
  /\ LET r == PairIdOf(pid.i, pid.j)
     IN  IF r.status # "eslOK"
         THEN pid' = [pid EXCEPT !.pc = "return", !.status = r.status,
                                 !.visited = Append(@, <<pid.i, pid.j>>)]
         ELSE pid' = [pid EXCEPT !.pid_min = DMin(@, r.pid),
                                 !.pid_max = DMax(@, r.pid),
                                 !.pid_mean = DAdd(@, r.pid),
                                 !.visited = Append(@, <<pid.i, pid.j>>),
                                 !.j = pid.j + 1]
  /\ UNCHANGED <<amb, pr, msa, bp, cs, pw, qc, ro, ix, wm>>

\* the end of the inner loop for sequence i
PidRowEnd ==
  /\ pid.pc = "pairs"
  /\ pid.i < msa.nseq
  /\ pid.j >= msa.nseq
  /\ pid' = [pid EXCEPT !.i = pid.i + 1, !.j = pid.i + 2]
  /\ UNCHANGED <<amb, pr, msa, bp, cs, pw, qc, ro, ix, wm>>

\* the division and the return of the three values
PidReturn ==
  /\ pid.pc = "pairs"
  /\ pid.i >= msa.nseq
  /\ pid' = [pid EXCEPT !.pc = "return",
                        !.pid_mean = PidMean(pid.pid_mean, msa.nseq),
                        !.ret_pid_mean = PidMean(pid.pid_mean, msa.nseq),
                        !.ret_pid_min = pid.pid_min,
                        !.ret_pid_max = pid.pid_max]
  /\ UNCHANGED <<amb, pr, msa, bp, cs, pw, qc, ro, ix, wm>>

PidNext == PidPair \/ PidRowEnd \/ PidReturn

PidInit == PidMsaGiven /\ PidCall /\ amb = AmbIdle /\ pr = PrIdle /\ bp = BpIdle
           /\ cs = CsIdle /\ pw = PwIdle /\ qc = QcIdle
           /\ ro = RoIdle /\ ix = IxIdle /\ wm = WmIdle

SpecPid == PidInit /\ [][PidNext]_vars

\* the function has returned eslOK with its three values
PidReturnedOK == pid.pc = "return" /\ pid.status = "eslOK"

\* C15: with fewer than two sequences _c_rfam_pid_stats does not return a
\* mean: it never returns eslOK.
C15_FewSequencesFail == msa.nseq < 2 => ~PidReturnedOK

\* x <= y as C compares doubles: false when either is NaN
DLe(x, y) == ~IsNaN(x) /\ ~IsNaN(y) /\ ~DGt(x, y)

SeqPairs == {p \in (0..(msa.nseq - 1)) \X (0..(msa.nseq - 1)) : p[1] < p[2]}

\* C16: when _c_rfam_pid_stats returns eslOK it has visited every pair i<j
\* once, nseq*(nseq-1)/2 pairs in all, its minimum and maximum are the least
\* and the greatest identity of a pair, and minimum <= mean <= maximum.
C16_MeanBetweenExtrema ==
  PidReturnedOK =>
    /\ Len(pid.visited) = (msa.nseq * (msa.nseq - 1)) \div 2
    /\ {pid.visited[k] : k \in 1..Len(pid.visited)} = SeqPairs
    /\ \A k, m \in 1..Len(pid.visited) : pid.visited[k] = pid.visited[m] => k = m
    /\ DLe(pid.ret_pid_min, pid.ret_pid_mean)
    /\ DLe(pid.ret_pid_mean, pid.ret_pid_max)
    /\ \A p \in SeqPairs : /\ DLe(pid.ret_pid_min, PairIdOf(p[1], p[2]).pid)
                           /\ DLe(PairIdOf(p[1], p[2]).pid, pid.ret_pid_max)
    /\ \E p \in SeqPairs : pid.ret_pid_min = PairIdOf(p[1], p[2]).pid
    /\ \E p \in SeqPairs : pid.ret_pid_max = PairIdOf(p[1], p[2]).pid

\* the part of C16 that the code keeps: the same statement for alignments of
\* two sequences or more
C16_WithTwoSequences == msa.nseq >= 2 => C16_MeanBetweenExtrema

\* ---- _c_pairwise_identity ----

\* faulty variant: an index equal to nseq accepted
PwInRangeOffByOne(i, nseq) == ~(i < 0 \/ i > nseq)

\* the range test made on i and on j
PwInRange(i, nseq) == ~(i < 0 \/ i >= nseq)

PwFrame(i, j) ==
  [pc |-> "call", i |-> i, j |-> j, read |-> {}, err |-> "", ret |-> "unset"]

PwCall == \E i, j \in (-1)..msa.nseq : pw = PwFrame(i, j)

\* the two contract checks on i and j
PwCheck ==
  /\ pw.pc = "call"
  /\ pw' = [pw EXCEPT !.pc = IF PwInRange(pw.i, msa.nseq) /\ PwInRange(pw.j, msa.nseq)
                              THEN "compare" ELSE "croak",
                      !.err = IF ~PwInRange(pw.i, msa.nseq) THEN "i out of bounds"
                              ELSE IF ~PwInRange(pw.j, msa.nseq) THEN "j out of bounds"
                              ELSE ""]
  /\ UNCHANGED <<amb, pr, msa, bp, cs, pid, qc, ro, ix, wm>>

\* the comparison of rows i and j
PwCompare ==
  /\ pw.pc = "compare"
  /\ LET r == PairIdOf(pw.i, pw.j)
     IN  pw' = [pw EXCEPT !.read = {pw.i, pw.j},
                          !.pc = IF r.status = "eslOK" THEN "done" ELSE "croak",
                          !.err = IF r.status = "eslOK" THEN ""
                                  ELSE "aligned seqs different lengths",
                          !.ret = IF r.status = "eslOK" THEN r.pid ELSE "unset"]
  /\ UNCHANGED <<amb, pr, msa, bp, cs, pid, qc, ro, ix, wm>>

PwNext == PwCheck \/ PwCompare

PairIdInit == PidMsaGiven /\ PwCall /\ amb = AmbIdle /\ pr = PrIdle /\ bp = BpIdle
              /\ cs = CsIdle /\ pid = PidIdle /\ qc = QcIdle
              /\ ro = RoIdle /\ ix = IxIdle /\ wm = WmIdle

SpecPairId == PairIdInit /\ [][PwNext]_vars

PwIndicesInRange == pw.i \in 0..(msa.nseq - 1) /\ pw.j \in 0..(msa.nseq - 1)

PwRow(i) == IF msa.digital THEN msa.ax[i] ELSE msa.aseq[i]

MaxQcSeq == 2     \* msa->nseq of such an alignment
MaxQcLen == 2     \* msa->alen of such an alignment
MaxQcCells == 4   \* msa->nseq * msa->alen of such an alignment

QcSSChars == {".", "<", ">"}

\* a well-formed digital alignment with its consensus structure
MemMsaGiven ==
  \E n \in 0..MaxQcSeq, l \in 1..MaxQcLen :
    /\ n * l <= MaxQcCells
    /\ \E ss \in [1..l -> QcSSChars], ax \in [0..(n - 1) -> [1..l -> PidCodes]] :
         msa = [nseq |-> n, alen |-> l, digital |-> TRUE, ax |-> ax, aseq |-> << >>,
                wgt |-> [k \in 0..(n - 1) |-> D(1)], ss_cons |-> ss]

\* either helper called on its own, with any one of its allocations failing
MemInit ==
  /\ MemMsaGiven
  /\ \/ (\E f \in 0..Len(BpAllocOrder) : bp = BpFrame(f)) /\ cs = CsIdle
     \/ bp = BpIdle /\ CsCall
  /\ amb = AmbIdle /\ pr = PrIdle /\ pid = PidIdle /\ pw = PwIdle /\ qc = QcIdle
  /\ ro = RoIdle /\ ix = IxIdle /\ wm = WmIdle

MemNext == BpNext \/ CsNext

SpecMem == MemInit /\ [][MemNext]_vars

\* _c_rfam_bp_stats has ended in its ERROR path
BpFailedAlloc ==
  /\ bp.pc = "croak"
  /\ bp.fail_at \in 1..2 \/ (bp.fail_at \in 3..7 /\ bp.ct # << >>)

\* _c_rfam_comp_and_len_stats has ended in its ERROR path
CsFailedAlloc == cs.pc = "croak" /\ msa.digital

\* after a failed allocation in _c_rfam_bp_stats no block is left allocated
C20_BpReleasesAll == BpFailedAlloc => bp.live = {}

\* after a failed allocation in _c_rfam_comp_and_len_stats no block is left
\* allocated and nothing that was never allocated has been freed
C20_CompReleasesAll == CsFailedAlloc => (cs.live = {} /\ cs.wild = {})

\* C20: when an allocation fails in _c_rfam_bp_stats or in
\* _c_rfam_comp_and_len_stats, every block allocated by the call has been
\* freed when the error is raised, and no pointer that was never allocated
\* has been freed.
C20_FailedAllocReleasesAll == C20_BpReleasesAll /\ C20_CompReleasesAll

\* ---------------------------------------------------------------------------
\* _c_rfam_qc_stats: the three helpers in turn, then the three output files
\* ---------------------------------------------------------------------------

\* rows of alen columns, and rows that run one residue past column alen
QcRowsOf(alen) ==
  [1..alen -> PidCodes] \cup {Append(row, 0) : row \in [1..alen -> PidCodes]}

\* a digital alignment (rows possibly of different lengths) or a text
\* alignment, with its consensus structure and its weights
QcMsaGiven ==
  \E n \in 0..MaxQcSeq, l \in 1..MaxQcLen :
    /\ n * l <= MaxQcCells
    /\ \E ss \in [1..l -> QcSSChars], wgt \in [0..(n - 1) -> Weights] :
         \/ \E ax \in [0..(n - 1) -> QcRowsOf(l)] :
              msa = [nseq |-> n, alen |-> l, digital |-> TRUE, ax |-> ax,
                     aseq |-> << >>, wgt |-> wgt, ss_cons |-> ss]
         \/ \E aseq \in [0..(n - 1) -> [1..l -> TextChars]] :
              msa = [nseq |-> n, alen |-> l, digital |-> FALSE, ax |-> << >>,
                     aseq |-> aseq, wgt |-> wgt, ss_cons |-> ss]

OutFiles == <<"fam_outfile", "seq_outfile", "bp_outfile">>

\* values an uninitialised double may hold
Indeterminate == {D(0), D(1)}

RECURSIVE esl_vec_ISum(_, _)
esl_vec_ISum(vec, n) == IF n = 0 THEN 0 ELSE esl_vec_ISum(vec, n - 1) + vec[n - 1]

QcFrame ==
  [pc |-> "call", err |-> "", open |-> {}, truncated |-> {},
   pid_mean |-> "unset", pid_min |-> "unset", pid_max |-> "unset",
   fam |-> << >>, seq |-> << >>, bpr |-> << >>]

QcCall == qc = QcFrame

\* the contract check on the digital flag
QcEnter ==
  /\ qc.pc = "call"
  /\ qc' = [qc EXCEPT !.pc = IF IsDigital(msa) THEN "open" ELSE "croak",
                      !.err = IF IsDigital(msa) THEN "" ELSE "MSA is not digitized"]
  /\ UNCHANGED <<amb, pr, msa, bp, cs, pid, pw, ro, ix, wm>>

\* the three fopen(.., "w") calls, the k-th of which fails (0: none does),
\* and the call of _c_rfam_comp_and_len_stats
QcOpen ==
  /\ qc.pc = "open"
  /\ \E k \in 0..Len(OutFiles) :
       IF k = 0
       THEN /\ qc' = [qc EXCEPT !.pc = "comp",
                                !.open = {OutFiles[f] : f \in 1..Len(OutFiles)},
                                !.truncated = {OutFiles[f] : f \in 1..Len(OutFiles)}]
            /\ cs' = CsFrame(0)
       ELSE /\ qc' = [qc EXCEPT !.pc = "croak",
                                !.err = "unable to open",
                                !.open = {OutFiles[f] : f \in 1..(k - 1)},
                                !.truncated = {OutFiles[f] : f \in 1..(k - 1)}]
            /\ cs' = cs
  /\ UNCHANGED <<amb, pr, msa, bp, pid, pw, ro, ix, wm>>

\* _c_rfam_comp_and_len_stats has returned: the call of _c_rfam_pid_stats
QcAfterComp ==
  /\ qc.pc = "comp"
  /\ cs.pc = "done"
  /\ qc' = [qc EXCEPT !.pc = "pid"]
  /\ pid' = PidFrame
  /\ UNCHANGED <<amb, pr, msa, bp, cs, pw, ro, ix, wm>>

\* _c_rfam_pid_stats has returned, its status is not looked at: the call of
\* _c_rfam_bp_stats.  When the helper returned early it stored nothing, and
\* pid_mean, pid_min and pid_max keep the indeterminate value of an
\* uninitialised local.
QcAfterPid ==
  /\ qc.pc = "pid"
  /\ pid.pc = "return"
  /\ IF pid.status = "eslOK"
     THEN qc' = [qc EXCEPT !.pc = "bp",
                           !.pid_mean = pid.ret_pid_mean,
                           !.pid_min = pid.ret_pid_min,
                           !.pid_max = pid.ret_pid_max]
     ELSE \E mean, min, max \in Indeterminate :
            qc' = [qc EXCEPT !.pc = "bp",
                             !.pid_mean = mean, !.pid_min = min, !.pid_max = max]
  /\ bp' = BpFrame(0)
  /\ UNCHANGED <<amb, pr, msa, cs, pid, pw, ro, ix, wm>>

\* the record of the family file
FamilyRecord ==
  LET max2l == _c_max_rna_two_letter_ambiguity(cs.abc_totA[0], cs.abc_totA[1],
                                               cs.abc_totA[2], cs.abc_totA[3])
  IN  [canonical |-> IF bp.nbp = 0 THEN D(0)
                     ELSE DDiv(D(esl_vec_ISum(bp.seq_canA, msa.nseq)),
                               D(msa.nseq * bp.nbp)),
       mean_cov |-> bp.mean_cov,
       nseq |-> msa.nseq, alen |-> msa.alen, nbp |-> bp.nbp,
       len_tot |-> cs.len_tot,
       pid_mean |-> qc.pid_mean, pid_max |-> qc.pid_max, pid_min |-> qc.pid_min,
       len_mean |-> DDiv(D(cs.len_tot), D(msa.nseq)),
       len_max |-> cs.len_max, len_min |-> cs.len_min,
       frac_nuc |-> DDiv(D(cs.len_tot), D(msa.alen * msa.nseq)),
       frac |-> [a \in 0..(K - 1) |-> DDiv(cs.abc_totA[a], D(cs.len_tot))],
       max_2l |-> max2l.max_2l, max_2l_frac |-> max2l.max_2l_frac,
       cg |-> DDiv(DAdd(cs.abc_totA[1], cs.abc_totA[2]), D(cs.len_tot))]

\* the record of sequence i in the sequence file
SequenceRecord(i) ==
  LET seqwt == msa.wgt[i]
      denom == DMul(seqwt, D(cs.lenA[i]))
      max2l == _c_max_rna_two_letter_ambiguity(cs.abcAA[i][0], cs.abcAA[i][1],
                                               cs.abcAA[i][2], cs.abcAA[i][3])
  IN  [canonical |-> IF bp.nbp = 0 THEN D(0)
                     ELSE DDiv(D(bp.seq_canA[i]), D(bp.nbp)),
       len |-> cs.lenA[i],
       frac |-> [a \in 0..(K - 1) |-> DDiv(cs.abcAA[i][a], denom)],
       max_2l |-> max2l.max_2l, max_2l_frac |-> max2l.max_2l_frac,
       cg |-> DDiv(DAdd(cs.abcAA[i][1], cs.abcAA[i][2]), denom)]

\* the records of the basepair file, for the columns from apos on
RECURSIVE BasepairRecords(_)
BasepairRecords(apos) ==
  IF apos >= msa.alen THEN << >>
  ELSE IF bp.rposA[apos] # -1
       THEN <<[left |-> apos + 1, right |-> bp.rposA[apos] + 1,
               canonical |-> DDiv(D(bp.pos_canA[apos]), D(msa.nseq)),
               cov |-> bp.covA[apos]]>> \o BasepairRecords(apos + 1)
       ELSE BasepairRecords(apos + 1)

\* _c_rfam_bp_stats has returned: the three files are written and closed and
\* the arrays of the helpers are freed
QcWrite ==
  /\ qc.pc = "bp"
  /\ bp.pc = "done"
  /\ qc' = [qc EXCEPT !.pc = "done",
                      !.fam = <<FamilyRecord>>,
                      !.seq = [k \in 1..msa.nseq |-> SequenceRecord(k - 1)],
                      !.bpr = BasepairRecords(0),
                      !.open = {}]
  /\ cs' = [cs EXCEPT !.live = {}, !.freed = cs.live]
  /\ bp' = [bp EXCEPT !.live = @ \ {"rposA", "seq_canA", "pos_canA", "covA"},
                      !.freed = @ \cup {"rposA", "seq_canA", "pos_canA", "covA"}]
  /\ UNCHANGED <<amb, pr, msa, pid, pw, ro, ix, wm>>

QcNext ==
  \/ QcEnter \/ QcOpen \/ QcAfterComp \/ QcAfterPid \/ QcWrite
  \/ CsNext \/ PidNext \/ BpNext

\* _c_rfam_qc_stats is called, or _c_rfam_comp_and_len_stats on its own
QcInit ==
  /\ QcMsaGiven
  /\ \/ QcCall /\ cs = CsIdle
     \/ qc = QcIdle /\ cs = CsFrame(0)
  /\ amb = AmbIdle /\ pr = PrIdle /\ bp = BpIdle /\ pid = PidIdle /\ pw = PwIdle
  /\ ro = RoIdle /\ ix = IxIdle /\ wm = WmIdle

SpecQc == QcInit /\ [][QcNext]_vars

\* C18: on an alignment that is not digital, _c_rfam_qc_stats ends in its
\* contract error with no file opened or truncated, no helper called and no
\* record written, and _c_rfam_comp_and_len_stats ends in its contract error
\* with nothing allocated and no result stored.
C18_NotDigitalFailsFirst ==
  ~msa.digital =>
    /\ qc.pc # "idle" =>
         /\ qc.pc \in {"call", "croak"}
         /\ qc.pc = "croak" => qc.err = "MSA is not digitized"
         /\ qc.open = {} /\ qc.truncated = {}
         /\ qc.fam = << >> /\ qc.seq = << >> /\ qc.bpr = << >>
         /\ cs = CsIdle /\ pid = PidIdle /\ bp = BpIdle
    /\ cs.pc # "idle" =>
         /\ cs.pc \in {"call", "croak"}
         /\ cs.live = {} /\ cs.freed = {}
         /\ cs.abcAA = << >> /\ cs.abc_totA = << >> /\ cs.lenA = << >>
         /\ cs.len_tot = 0 /\ cs.len_min = 0 /\ cs.len_max = 0

C18_Witness ==
  /\ ~msa.digital
  /\ msa.nseq = 2
  /\ qc.pc = "croak"
  /\ qc.err = "MSA is not digitized"
  /\ qc.truncated = {}

\* C19: once _c_rfam_pid_stats has returned a status other than eslOK, the
\* pass goes no further: _c_rfam_bp_stats is not called and no record is
\* written.
C19_HelperErrorAborts ==
  (qc.pc # "idle" /\ pid.pc = "return" /\ pid.status # "eslOK") =>
    /\ bp = BpIdle
    /\ qc.fam = << >> /\ qc.seq = << >> /\ qc.bpr = << >>

\* the state the code does reach: the family record written with the
\* identity values that no helper has set
C19_RecordFromUnsetValues ==
  ~(/\ qc.pc = "done"
    /\ pid.status # "eslOK"
    /\ qc.fam # << >>)

\* ---------------------------------------------------------------------------
\* further claims about _c_rfam_bp_stats
\* ---------------------------------------------------------------------------

\* the orders in which the sequences of the alignment can be given
SeqOrders ==
  {order \in [0..(msa.nseq - 1) -> 0..(msa.nseq - 1)] :
     \A k, m \in 0..(msa.nseq - 1) : order[k] = order[m] => k = m}

\* the triples <<i, j, apos>> the loops of lines 1120-1152 count when the rows
\* are given in that order: i comes before j and passes the test of line 1127
CountedFor(order) ==
  {<<order[k], order[m], apos>> :
     <<k, m, apos>> \in
       {t \in (0..(msa.nseq - 1)) \X (0..(msa.nseq - 1)) \X LeftColumns :
          /\ t[1] < t[2]
          /\ PairIsExamined(LeftRes(order[t[1]], t[3]), RightRes(order[t[1]], t[3]))}}

ScoreFor(order, apos) ==
  LET S == {t \in CountedFor(order) : t[3] = apos}
  IN  IF SumWeight(S) # D(0) THEN DDiv(SumContribution(S), SumWeight(S)) ELSE D(0)

MeanFor(order) ==
  IF bp.nbp = 0 THEN D(0)
  ELSE DDiv(SumContribution(CountedFor(order)), SumWeight(CountedFor(order)))

\* the run itself is the one of the order 0, 1, .., nseq-1
CountedForGivenOrder ==
  bp.pc = "done" => bp.counted = CountedFor([k \in 0..(msa.nseq - 1) |-> k])

\* C26: the mean covariation and the score of every basepair are the same in
\* whatever order the sequences (with their weights) are given.
C26_OrderIndependent ==
  bp.pc = "done" =>
    \A order \in SeqOrders :
      /\ MeanFor(order) = bp.mean_cov
      /\ \A apos \in LeftColumns : ScoreFor(order, apos) = bp.covA[apos]

\* C27: with at least one basepair the sum of cov_cntA that mean_cov is
\* divided by is not 0, and mean_cov is a number.
C27_MeanDenominatorNonZero ==
  (bp.pc \in {"normalise", "done"} /\ bp.nbp > 0) =>
    /\ esl_vec_DSum(bp.cov_cntA, msa.alen) # D(0)
    /\ IsFinite(bp.mean_cov)

\* -2 <= x <= 2
InScoreRange(x) == DLe(D(-2), x) /\ DLe(x, D(2))

\* C28: with positive weights the score of every basepair and the mean
\* covariation lie between -2 and 2.
C28_ScoresInRange ==
  bp.pc = "done" =>
    /\ \A apos \in 0..(msa.alen - 1) : InScoreRange(bp.covA[apos])
    /\ InScoreRange(bp.mean_cov)

\* the part of C28 that the code keeps: the scores, and the mean when it is
\* a number
C28_ScoresInRangeWhenDefined ==
  bp.pc = "done" =>
    /\ \A apos \in 0..(msa.alen - 1) : InScoreRange(bp.covA[apos])
    /\ IsNaN(bp.mean_cov) \/ InScoreRange(bp.mean_cov)

\* ---------------------------------------------------------------------------
\* further claims about _c_rfam_qc_stats
\* ---------------------------------------------------------------------------

\* the four base fractions of the family record
FamilyFractions == qc.fam[1].frac

\* C29: for an alignment with at least one residue, each base fraction of the
\* family record lies between 0 and 1 and the four of them sum to 1 at most.
C29_BaseFractionsInRange ==
  (qc.pc = "done" /\ cs.len_tot >= 1) =>
    /\ \A a \in 0..(K - 1) : DLe(D(0), FamilyFractions[a]) /\ DLe(FamilyFractions[a], D(1))
    /\ DLe(esl_vec_DSum(FamilyFractions, K), D(1))

\* the same for alignments whose weights are all 1
C29_WithUnitWeights ==
  (\A i \in 0..(msa.nseq - 1) : msa.wgt[i] = D(1)) => C29_BaseFractionsInRange

\* weights of which one may be 0
ZeroWeights == {D(0), D(1)}

\* a well-formed digital alignment in which sequences may have weight 0
ZeroWeightMsaGiven ==
  \E n \in 0..MaxQcSeq, l \in 1..MaxQcLen :
    /\ n * l <= MaxQcCells
    /\ \E ss \in [1..l -> QcSSChars], wgt \in [0..(n - 1) -> ZeroWeights],
          ax \in [0..(n - 1) -> [1..l -> PidCodes]] :
         msa = [nseq |-> n, alen |-> l, digital |-> TRUE, ax |-> ax,
                aseq |-> << >>, wgt |-> wgt, ss_cons |-> ss]

ZeroWeightInit ==
  /\ ZeroWeightMsaGiven
  /\ QcCall
  /\ amb = AmbIdle /\ pr = PrIdle /\ bp = BpIdle /\ cs = CsIdle
  /\ pid = PidIdle /\ pw = PwIdle
  /\ ro = RoIdle /\ ix = IxIdle /\ wm = WmIdle

SpecZeroWeight == ZeroWeightInit /\ [][QcNext]_vars

ZeroWeighted == {i \in 0..(msa.nseq - 1) : msa.wgt[i] = D(0)}

\* the counted sequence pairs without a sequence of weight 0
CountedWithoutZero == {t \in bp.counted : t[1] \notin ZeroWeighted /\ t[2] \notin ZeroWeighted}

\* a sequence of weight 0 has added 0 to every composition bucket
C21_ZeroInBuckets ==
  cs.pc = "done" => \A i \in ZeroWeighted : \A a \in 0..K : cs.abcAA[i][a] = D(0)

\* the sums of every basepair are those of the pairs without a sequence of
\* weight 0
C21_ZeroInCovariation ==
  bp.pc \in {"normalise", "done"} =>
    /\ esl_vec_DSum(bp.cov_cntA, msa.alen) = SumWeight(CountedWithoutZero)
    /\ bp.mean_cov = MeanCov(bp.nbp, [apos \in 0..(msa.alen - 1) |->
                                        SumContribution({t \in CountedWithoutZero : t[3] = apos})],
                             [apos \in 0..(msa.alen - 1) |->
                                        SumWeight({t \in CountedWithoutZero : t[3] = apos})],
                             msa.alen)

\* no value of a sequence record comes from a division by a weight of 0
C21_NoDivisionByZeroWeight ==
  qc.pc = "done" =>
    \A i \in ZeroWeighted :
      /\ \A a \in 0..(K - 1) : IsFinite(qc.seq[i + 1].frac[a])
      /\ IsFinite(qc.seq[i + 1].cg)

\* C21: a sequence of weight 0 adds 0 to every composition bucket, the pairs
\* it is part of add 0 to the contribution sum and to the weight sum of every
\* basepair, and nothing is divided by its weight.
C21_ZeroWeightContributesNothing ==
  /\ C21_ZeroInBuckets
  /\ C21_ZeroInCovariation
  /\ C21_NoDivisionByZeroWeight

---------------------------------------------------------------------------
(* _c_reorder: the per-sequence arrays of the alignment                    *)

MaxRoSeq == 3   \* msa->nseq ranges over 1..MaxRoSeq for _c_reorder

\* a NULL array pointer
Null == <<>>

\* what a per-sequence array holds at the index of sequence i when the
\* alignment is built: the pointer to the row or string of that sequence
Own(field, i) == <<field, i>>

\* the pointer read from an element outside an array
WildPtr == <<"wild", -1>>

Arr(field, n) == [i \in 0..n-1 |-> Own(field, i)]

OptFields == {"sqacc", "sqdesc", "ss", "sa", "pp"}

\* which optional annotation the alignment carries
RoShapes ==
  { [opt |-> {}, ngs |-> 0, ngr |-> 0],
    [opt |-> {"sqacc", "sqdesc"}, ngs |-> 1, ngr |-> 0],
    [opt |-> {"ss", "sa", "pp"}, ngs |-> 0, ngr |-> 1],
    [opt |-> OptFields, ngs |-> 1, ngr |-> 1] }

\* msa->index: a keyhash is the sequence of its keys, the number of a key
\* being its position in the order of storage, counted from 0
NullIndex == [null |-> TRUE, keys |-> <<>>]

esl_keyhash_GetNumber(kh) == Len(kh.keys)

\* the status and the number found for a key
esl_keyhash_Lookup(kh, key) ==
  IF \E j \in 1..Len(kh.keys) : kh.keys[j] = key
  THEN [status |-> "eslOK",
        idx |-> (CHOOSE j \in 1..Len(kh.keys) : kh.keys[j] = key) - 1]
  ELSE [status |-> "eslENOTFOUND", idx |-> -1]

\* esl_msa_Hash: stores the names in the order of the sequences; a name
\* stored twice is eslEDUP and leaves the alignment without an index
esl_msa_Hash(m) ==
  IF \E i, j \in 0..m.nseq-1 : i < j /\ m.sqname[i] = m.sqname[j]
  THEN [status |-> "eslEDUP", index |-> NullIndex]
  ELSE [status |-> "eslOK",
        index |-> [null |-> FALSE,
                   keys |-> [j \in 1..m.nseq |-> m.sqname[j-1]]]]

Alignment(n, digital, shape, wgt, indexed) ==
  LET m == [nseq |-> n,
            flags |-> IF digital THEN {"eslMSA_DIGITAL"} ELSE {},
            ax |-> IF digital THEN Arr("ax", n) ELSE Null,
            aseq |-> IF digital THEN Null ELSE Arr("aseq", n),
            sqname |-> Arr("sqname", n),
            wgt |-> wgt,
            sqacc |-> IF "sqacc" \in shape.opt THEN Arr("sqacc", n) ELSE Null,
            sqdesc |-> IF "sqdesc" \in shape.opt THEN Arr("sqdesc", n) ELSE Null,
            ss |-> IF "ss" \in shape.opt THEN Arr("ss", n) ELSE Null,
            sa |-> IF "sa" \in shape.opt THEN Arr("sa", n) ELSE Null,
            pp |-> IF "pp" \in shape.opt THEN Arr("pp", n) ELSE Null,
            ngs |-> shape.ngs,
            gs |-> [a \in 1..shape.ngs |-> Arr("gs", n)],
            ngr |-> shape.ngr,
            gr |-> [a \in 1..shape.ngr |-> Arr("gr", n)],
            index |-> NullIndex]
  IN  IF indexed THEN [m EXCEPT !.index = esl_msa_Hash(m).index] ELSE m

\* the weights: all 1, or a different weight for every sequence
RoMsaGiven ==
  \E n \in 1..MaxRoSeq, digital \in BOOLEAN, shape \in RoShapes :
    \E wgt \in { [i \in 0..n-1 |-> D(1)], [i \in 0..n-1 |-> D(i + 1)] } :
      msa = Alignment(n, digital, shape, wgt, TRUE)

\* the Perl arrays handed over as orderAR: nseq integers, or one too few
OrderArrays(n) ==
  UNION { [1..len -> -1..n] : len \in {n - 1, n} }

InRange(v) == v \in 0..msa.nseq-1

\* tmp[order[i]] for every i: an entry outside the array reads a wild pointer
Permute(arr, order) ==
  [i \in DOMAIN arr |->
     IF order[i] \in DOMAIN arr THEN arr[order[i]] ELSE WildPtr]

\* the swaps of lines 1745-1801
Reordered(m, order) ==
  [m EXCEPT
     !.ax = IF "eslMSA_DIGITAL" \in m.flags THEN Permute(@, order) ELSE @,
     !.aseq = IF "eslMSA_DIGITAL" \in m.flags THEN @ ELSE Permute(@, order),
     !.sqname = Permute(@, order),
     !.sqacc = IF @ # Null THEN Permute(@, order) ELSE @,
     !.sqdesc = IF @ # Null THEN Permute(@, order) ELSE @,
     !.ss = IF @ # Null THEN Permute(@, order) ELSE @,
     !.sa = IF @ # Null THEN Permute(@, order) ELSE @,
     !.pp = IF @ # Null THEN Permute(@, order) ELSE @,
     !.gs = [a \in 1..m.ngs |-> Permute(@[a], order)],
     !.gr = [a \in 1..m.ngr |-> Permute(@[a], order)]]

\* before: the alignment as it was at the call; oob: the array elements
\* outside their array that the call has read or written
RoFrame(orderAR) ==
  [pc |-> "alloc", orderAR |-> orderAR, order |-> <<>>, covered |-> <<>>,
   i |-> 0, live |-> {}, oob |-> {}, err |-> "", before |-> msa]

RoCroak(msg) == [ro EXCEPT !.pc = "croaked", !.err = msg]

\* lines 1726-1732: tmp, order, and the copy of the Perl array
RoAlloc ==
  /\ ro.pc = "alloc"
  /\ \E failed \in {"none", "tmp", "order"} :
       ro' = IF failed = "tmp" THEN RoCroak("out of memory")
             ELSE IF failed = "order"
               THEN [RoCroak("out of memory") EXCEPT !.live = {"tmp"}]
             ELSE IF Len(ro.orderAR) < msa.nseq
               THEN [RoCroak("failed array lookup") EXCEPT
                       !.live = {"tmp", "order"}]
             ELSE [ro EXCEPT !.pc = "cover", !.live = {"tmp", "order"},
                     !.order = [i \in 0..msa.nseq-1 |-> ro.orderAR[i + 1]]]
  /\ UNCHANGED <<amb, pr, msa, bp, cs, pid, pw, qc, ix, wm>>

\* lines 1736-1738: covered, all 0
RoCover ==
  /\ ro.pc = "cover"
  /\ \E ok \in BOOLEAN :
       ro' = IF ~ok THEN RoCroak("out of memory")
             ELSE [ro EXCEPT !.pc = "check", !.i = 0,
                     !.live = @ \cup {"covered"},
                     !.covered = [i \in 0..msa.nseq-1 |-> 0]]
  /\ UNCHANGED <<amb, pr, msa, bp, cs, pid, pw, qc, ix, wm>>

\* lines 1739-1742, one iteration: covered[order[i]] is read and written
\* with no test of order[i]; outside the array the read gives any value or
\* faults, and the write lands outside the block
RoCheck ==
  /\ ro.pc = "check" /\ ro.i < msa.nseq
  /\ LET v == ro.order[ro.i]
     IN  IF InRange(v)
         THEN ro' = IF ro.covered[v] # 0
                    THEN RoCroak("duplicate entries")
                    ELSE [ro EXCEPT !.covered[v] = 1, !.i = @ + 1]
         ELSE \E outcome \in {"zero", "nonzero", "fault"} :
                ro' = IF outcome = "fault"
                        THEN [ro EXCEPT !.pc = "crashed",
                                !.oob = @ \cup {<<"covered", v>>}]
                      ELSE IF outcome = "nonzero"
                        THEN [RoCroak("duplicate entries") EXCEPT
                                !.oob = @ \cup {<<"covered", v>>}]
                      ELSE [ro EXCEPT !.i = @ + 1,
                              !.oob = @ \cup {<<"covered", v>>}]
  /\ UNCHANGED <<amb, pr, msa, bp, cs, pid, pw, qc, ix, wm>>

\* line 1743
RoChecked ==
  /\ ro.pc = "check" /\ ro.i = msa.nseq
  /\ ro' = [ro EXCEPT !.pc = "swap", !.live = @ \ {"covered"}]
  /\ UNCHANGED <<amb, pr, msa, bp, cs, pid, pw, qc, ix, wm>>

\* lines 1745-1801: every array is copied to tmp and refilled from
\* tmp[order[i]]; msa->wgt and msa->index are not among them
RoSwap ==
  /\ ro.pc = "swap"
  /\ LET outside == {v \in {ro.order[i] : i \in 0..msa.nseq-1} : ~InRange(v)}
     IN  \E ok \in BOOLEAN :
           IF "eslMSA_DIGITAL" \in msa.flags /\ ~ok
           THEN ro' = RoCroak("out of memory") /\ msa' = msa
           ELSE /\ ro' = [ro EXCEPT !.pc = "swapped",
                            !.oob = @ \cup {<<"tmp", v>> : v \in outside}]
                /\ msa' = Reordered(msa, ro.order)
  /\ UNCHANGED <<amb, pr, bp, cs, pid, pw, qc, ix, wm>>

\* lines 1802-1805
RoReturn ==
  /\ ro.pc = "swapped"
  /\ ro' = [ro EXCEPT !.pc = "returned", !.live = {}]
  /\ UNCHANGED <<amb, pr, msa, bp, cs, pid, pw, qc, ix, wm>>

RoNext == RoAlloc \/ RoCover \/ RoCheck \/ RoChecked \/ RoSwap \/ RoReturn

ReorderInit ==
  /\ RoMsaGiven
  /\ \E orderAR \in OrderArrays(msa.nseq) : ro = RoFrame(orderAR)
  /\ amb = AmbIdle /\ pr = PrIdle /\ bp = BpIdle /\ cs = CsIdle
  /\ pid = PidIdle /\ pw = PwIdle /\ qc = QcIdle /\ ix = IxIdle /\ wm = WmIdle

SpecReorder == ReorderInit /\ [][RoNext]_vars

IsPermutation(order, n) ==
  /\ DOMAIN order = 0..n-1
  /\ \A i \in 0..n-1 : order[i] \in 0..n-1
  /\ \A i, j \in 0..n-1 : i # j => order[i] # order[j]

\* what _c_get_sqwgt returns for idx
c_get_sqwgt(m, idx) == m.wgt[idx]

\* the array fields that _c_reorder would have to carry along, weights aside
RowsAndAnnotationFollow(i) ==
  LET b == ro.before
      o == ro.order[i]
  IN  /\ msa.ax # Null => msa.ax[i] = b.ax[o]
      /\ msa.aseq # Null => msa.aseq[i] = b.aseq[o]
      /\ msa.sqname[i] = b.sqname[o]
      /\ msa.sqacc # Null => msa.sqacc[i] = b.sqacc[o]
      /\ msa.sqdesc # Null => msa.sqdesc[i] = b.sqdesc[o]
      /\ msa.ss # Null => msa.ss[i] = b.ss[o]
      /\ msa.sa # Null => msa.sa[i] = b.sa[o]
      /\ msa.pp # Null => msa.pp[i] = b.pp[o]
      /\ \A a \in 1..msa.ngs : msa.gs[a][i] = b.gs[a][o]
      /\ \A a \in 1..msa.ngr : msa.gr[a][i] = b.gr[a][o]

\* C22: after _c_reorder has returned for a permutation, the row, the name,
\* the accession, the description, ss, sa, pp, the GS and GR annotation and
\* the weight found at index i are those that were at index order[i] before
\* the call.  The weight is the part that fails: msa->wgt is never swapped.
C22_AllFieldsFollow ==
  (ro.pc = "returned" /\ IsPermutation(ro.order, msa.nseq)) =>
    \A i \in 0..msa.nseq-1 :
      /\ RowsAndAnnotationFollow(i)
      /\ c_get_sqwgt(msa, i) = c_get_sqwgt(ro.before, ro.order[i])

\* C22, without the weights: every swapped array follows the permutation
C22_SwappedFieldsFollow ==
  (ro.pc = "returned" /\ IsPermutation(ro.order, msa.nseq)) =>
    \A i \in 0..msa.nseq-1 : RowsAndAnnotationFollow(i)

\* the order array as the call received it is a permutation of 0..nseq-1
GivenPermutation ==
  /\ Len(ro.orderAR) = msa.nseq
  /\ IsPermutation([i \in 0..msa.nseq-1 |-> ro.orderAR[i + 1]], msa.nseq)

\* C25, duplicates: an order array with every entry in range and one entry
\* twice never reaches the swaps, and the alignment is as it was
C25_DuplicateRejected ==
  (/\ ro.pc \notin {"idle", "alloc"}
   /\ ~GivenPermutation
   /\ \A j \in 1..Len(ro.orderAR) : InRange(ro.orderAR[j]))
    => /\ ro.pc \in {"cover", "check", "croaked"}
       /\ ro.oob = {}
       /\ msa = ro.before

\* C25: an order array that is no permutation of 0..nseq-1 never reaches the
\* swaps, leaves the alignment as it was, and no array element outside
\* [0, nseq-1] is read or written.  Fails for an entry out of range.
C25_NonPermutationRejected ==
  (ro.pc \notin {"idle", "alloc"} /\ ~GivenPermutation)
    => /\ ro.pc \in {"cover", "check", "croaked"}
       /\ ro.oob = {}
       /\ msa = ro.before

---------------------------------------------------------------------------
(* the name index: _c_set_sqname, _c_check_index, _c_get_sqidx, with       *)
(* _c_reorder, called one after the other on one alignment                 *)

MaxIxSeq == 2   \* msa->nseq ranges over 1..MaxIxSeq for the name index
MaxIxCalls == 3 \* at most MaxIxCalls calls are made on the alignment

\* the names a caller may pass: those of the sequences and one more
IxNames == {Own("sqname", j) : j \in 0..msa.nseq}

\* a text alignment without optional annotation, its index built or not
IxMsaGiven ==
  \E n \in 1..MaxIxSeq, indexed \in BOOLEAN :
    msa = Alignment(n, FALSE, [opt |-> {}, ngs |-> 0, ngr |-> 0],
                    [i \in 0..n-1 |-> D(1)], indexed)

\* checked: _c_check_index has returned since the last call of _c_reorder
\* or _c_set_sqname; calls: the number of calls made so far
IxFrame(pc, fn, idx, name, ret, err, checked) ==
  [pc |-> pc, fn |-> fn, idx |-> idx, name |-> name, ret |-> ret,
   err |-> err, checked |-> checked, calls |-> ix.calls + 1]

\* no call is in progress, none has died, and one more may be made
Quiet ==
  /\ ro.pc \in {"idle", "returned"}
  /\ ix.pc \in {"idle", "returned"}
  /\ ix.calls < MaxIxCalls

\* the caller starts _c_reorder with a permutation of 0..nseq-1
ReorderCall ==
  /\ Quiet
  /\ \E orderAR \in [1..msa.nseq -> 0..msa.nseq-1] :
       /\ \A i, j \in 1..msa.nseq : i # j => orderAR[i] # orderAR[j]
       /\ ro' = RoFrame(orderAR)
  /\ ix' = [ix EXCEPT !.checked = FALSE, !.calls = @ + 1]
  /\ UNCHANGED <<amb, pr, msa, bp, cs, pid, pw, qc, wm>>

\* lines 379-384; esl_strdup is taken to succeed
SetSqname ==
  /\ Quiet
  /\ \E idx \in 0..msa.nseq-1, newname \in IxNames :
       /\ msa' = [msa EXCEPT !.sqname[idx] = newname]
       /\ ix' = IxFrame("returned", "_c_set_sqname", idx, newname, -1, "", FALSE)
  /\ UNCHANGED <<amb, pr, bp, cs, pid, pw, qc, ro, wm>>

\* lines 1817-1829: the index is built only when there is none or when its
\* number of keys differs from nseq
CheckIndex ==
  /\ Quiet
  /\ \E mem \in BOOLEAN :
       IF msa.index.null \/ esl_keyhash_GetNumber(msa.index) # msa.nseq
       THEN LET h == IF mem THEN esl_msa_Hash(msa)
                     ELSE [status |-> "eslEMEM", index |-> NullIndex]
            IN  /\ msa' = [msa EXCEPT !.index = h.index]
                /\ ix' = IF h.status = "eslEDUP"
                           THEN IxFrame("croaked", "_c_check_index", -1, <<>>, -1,
                                        "MSA has duplicated names in it", FALSE)
                         ELSE IF h.status = "eslEMEM"
                           THEN IxFrame("croaked", "_c_check_index", -1, <<>>, -1,
                                        "out of memory", FALSE)
                         ELSE IxFrame("returned", "_c_check_index", -1, <<>>, -1,
                                      "", TRUE)
       ELSE /\ msa' = msa
            /\ ix' = IxFrame("returned", "_c_check_index", -1, <<>>, -1, "", TRUE)
  /\ UNCHANGED <<amb, pr, bp, cs, pid, pw, qc, ro, wm>>

\* lines 363-372
GetSqidx ==
  /\ Quiet
  /\ \E sqname \in IxNames :
       ix' = IF msa.index.null
               THEN IxFrame("croaked", "_c_get_sqidx", -1, sqname, -1,
                            "msa->index is NULL", ix.checked)
             ELSE IF esl_keyhash_GetNumber(msa.index) = 0
               THEN IxFrame("croaked", "_c_get_sqidx", -1, sqname, -1,
                            "msa->index has no keys", ix.checked)
             ELSE LET r == esl_keyhash_Lookup(msa.index, sqname)
                  IN  IxFrame("returned", "_c_get_sqidx", -1, sqname,
                              IF r.status = "eslENOTFOUND" THEN -1 ELSE r.idx,
                              "", ix.checked)
  /\ UNCHANGED <<amb, pr, msa, bp, cs, pid, pw, qc, ro, wm>>

IxNext ==
  \/ ReorderCall
  \/ RoNext
  \/ SetSqname
  \/ CheckIndex
  \/ GetSqidx

IndexInit ==
  /\ IxMsaGiven
  /\ ix = [pc |-> "idle", fn |-> "", idx |-> -1, name |-> <<>>, ret |-> -1,
           err |-> "", checked |-> FALSE, calls |-> 0]
  /\ amb = AmbIdle /\ pr = PrIdle /\ bp = BpIdle /\ cs = CsIdle
  /\ pid = PidIdle /\ pw = PwIdle /\ qc = QcIdle /\ ro = RoIdle /\ wm = WmIdle

SpecIndex == IndexInit /\ [][IxNext]_vars

\* _c_get_sqidx has returned the index of a sequence that now has the name
\* asked for, or -1 when no sequence has it
LookupIsCurrent ==
  IF \E i \in 0..msa.nseq-1 : msa.sqname[i] = ix.name
  THEN ix.ret \in 0..msa.nseq-1 /\ msa.sqname[ix.ret] = ix.name
  ELSE ix.ret = -1

\* C23: when _c_check_index has returned after the last _c_reorder or
\* _c_set_sqname, _c_get_sqidx returns the index i with sqname[i] equal to
\* the name, and -1 when no sequence has that name
C23_IndexFollowsMutation ==
  (ix.pc = "returned" /\ ix.fn = "_c_get_sqidx" /\ ix.checked
   /\ ro.pc \in {"idle", "returned"})
    => LookupIsCurrent

\* C23, for an index whose keys are the present names
C23_LookupInBuiltIndex ==
  (/\ ix.pc = "returned" /\ ix.fn = "_c_get_sqidx"
   /\ msa.index = esl_msa_Hash(msa).index)
    => LookupIsCurrent

---------------------------------------------------------------------------
(* _c_write_msa: the output file and its handle                            *)

Paths == {"out.sto", "dir/out.afa"}

\* format strings a caller may pass; the last two name no format
Formats == {"stockholm", "pfam", "afa", "fasta", ""}

\* eslx_msafile_EncodeFormat: the code of a format name, without regard to
\* case, or eslMSAFILE_UNKNOWN
eslx_msafile_EncodeFormat(format) ==
  IF format = "stockholm" THEN "eslMSAFILE_STOCKHOLM"
  ELSE IF format = "pfam" THEN "eslMSAFILE_PFAM"
  ELSE IF format = "afa" THEN "eslMSAFILE_AFA"
  ELSE "eslMSAFILE_UNKNOWN"

\* what a file holds: nseq sequences in a format; "absent" for no file,
\* "old" for what it held before the call, "" for an empty file
File(fmt, nseq) == [fmt |-> fmt, nseq |-> nseq]

\* fs: the content of every path; canopen: the paths fopen(path, "w") can
\* open; open: the handles that are open; before: fs at the call
WmFrame(outfile, format, fs, canopen) ==
  [pc |-> "open", outfile |-> outfile, format |-> format, ofp |-> "NULL",
   fmt |-> "", ret |-> "", fs |-> fs, canopen |-> canopen, open |-> {},
   before |-> fs]

\* lines 117-119: fopen(outfile, "w") creates or truncates the file
WmOpen ==
  /\ wm.pc = "open"
  /\ wm' = IF wm.outfile \notin wm.canopen
             THEN [wm EXCEPT !.pc = "returned", !.ret = "eslFAIL"]
           ELSE [wm EXCEPT !.pc = "encode", !.ofp = wm.outfile,
                   !.open = @ \cup {wm.outfile},
                   !.fs[wm.outfile] = File("", 0)]
  /\ UNCHANGED <<amb, pr, msa, bp, cs, pid, pw, qc, ro, ix>>

\* lines 120-122: the return for an unknown format does not close ofp
WmEncode ==
  /\ wm.pc = "encode"
  /\ LET fmt == eslx_msafile_EncodeFormat(wm.format)
     IN  wm' = IF fmt = "eslMSAFILE_UNKNOWN"
                 THEN [wm EXCEPT !.pc = "returned", !.fmt = fmt,
                         !.ret = "eslEINVAL"]
               ELSE [wm EXCEPT !.pc = "write", !.fmt = fmt]
  /\ UNCHANGED <<amb, pr, msa, bp, cs, pid, pw, qc, ro, ix>>

\* line 123: the status of eslx_msafile_Write is not looked at
WmWrite ==
  /\ wm.pc = "write"
  /\ \E nwritten \in 0..msa.nseq :
       wm' = [wm EXCEPT !.pc = "close",
                !.fs[wm.ofp] = File(wm.fmt, nwritten)]
  /\ UNCHANGED <<amb, pr, msa, bp, cs, pid, pw, qc, ro, ix>>

\* lines 124-126
WmClose ==
  /\ wm.pc = "close"
  /\ wm' = [wm EXCEPT !.pc = "returned", !.open = @ \ {wm.ofp},
              !.ret = "eslOK"]
  /\ UNCHANGED <<amb, pr, msa, bp, cs, pid, pw, qc, ro, ix>>

WmNext == WmOpen \/ WmEncode \/ WmWrite \/ WmClose

WriteInit ==
  /\ IxMsaGiven
  /\ \E outfile \in Paths, format \in Formats, canopen \in SUBSET Paths :
       \E fs \in [Paths -> {File("absent", 0), File("old", 0)}] :
         wm = WmFrame(outfile, format, fs, canopen)
  /\ amb = AmbIdle /\ pr = PrIdle /\ bp = BpIdle /\ cs = CsIdle
  /\ pid = PidIdle /\ pw = PwIdle /\ qc = QcIdle /\ ro = RoIdle /\ ix = IxIdle

SpecWrite == WriteInit /\ [][WmNext]_vars

\* C30, the status: eslFAIL when the file cannot be opened, eslEINVAL when
\* the format is unknown, eslOK otherwise
C30_Status ==
  wm.pc = "returned" =>
    wm.ret = IF wm.outfile \notin wm.canopen THEN "eslFAIL"
             ELSE IF eslx_msafile_EncodeFormat(wm.format) = "eslMSAFILE_UNKNOWN"
               THEN "eslEINVAL"
             ELSE "eslOK"

\* C30: _c_write_msa returns eslFAIL, eslEINVAL or eslOK as above, on every
\* return the handle it opened is closed, and a return of eslEINVAL leaves
\* every file as it was before the call
C30_ClosedOnEveryReturn ==
  wm.pc = "returned" =>
    /\ C30_Status
    /\ wm.open = {}
    /\ wm.ret = "eslEINVAL" => wm.fs = wm.before

AmbInit == AmbCall /\ pr = PrIdle /\ msa = MsaIdle /\ bp = BpIdle
           /\ cs = CsIdle /\ pid = PidIdle /\ pw = PwIdle /\ qc = QcIdle
           /\ ro = RoIdle /\ ix = IxIdle /\ wm = WmIdle

SpecAmb == AmbInit /\ [][CallMax2l]_vars

CanonInit == CanonCall /\ amb = AmbIdle /\ msa = MsaIdle /\ bp = BpIdle
             /\ cs = CsIdle /\ pid = PidIdle /\ pw = PwIdle /\ qc = QcIdle
             /\ ro = RoIdle /\ ix = IxIdle /\ wm = WmIdle

SpecCanon == CanonInit /\ [][CallBpIsCanonical]_vars

DistInit == DistCall /\ amb = AmbIdle /\ msa = MsaIdle /\ bp = BpIdle
            /\ cs = CsIdle /\ pid = PidIdle /\ pw = PwIdle /\ qc = QcIdle
            /\ ro = RoIdle /\ ix = IxIdle /\ wm = WmIdle

SpecDist == DistInit /\ [][CallBpDist]_vars

====
